---------------------------- MODULE Spec2Model ----------------------------
(***************************************************************************)
(* Chai server: the session store (repository.go), the Claude process      *)
(* manager (claude.go) and the HTTP handlers (handlers.go).                 *)
(*                                                                         *)
(* Three levels are specified over the same state:                         *)
(*   SpecRepo  - any caller invoking the Repository methods                *)
(*   SpecCM    - goroutines invoking the ClaudeManager pending-request API *)
(*   Spec      - the HTTP handlers composing both, with the subprocess,    *)
(*               the client and the request context as environment         *)
(*   SpecPanic - Spec plus a panic raised inside the Prompt handler        *)
(*   SpecEvents - any caller writing to the store and reading it back      *)
(*   SpecPurge - the store with its clock and the purge of old events       *)
(*   SpecPerm  - permission requests stored and answered, processes        *)
(*               registered and gone                                       *)
(*   FairSpec  - Spec with weak fairness, for the liveness properties      *)
(***************************************************************************)
EXTENDS Integers, Sequences, FiniteSets, TLC

\* ------------------------------------------------------------------ bounds
NumSessions == 2
NumRequests == 2
MaxLines == 1
MaxApprovals == 1

MaxAnswers == 2

MaxProcs == 1

MaxTime == 4

MaxPurgeEvents == 3
MaxClaims == 2
MaxWindow == 3
MaxEvents == 5
NumCallers == 2
MaxTakes == 2

MaxCreates == 1

MaxCancels == 1

MaxFaults == 1

MaxMessages == 1

\* ------------------------------------------------------------------ values
Nil == "nil"

SessionId(i) == "s" \o ToString(i)

SessionIds == {SessionId(i) : i \in 1..NumSessions}

Requests == 1..NumRequests

Callers == 1..NumCallers

StreamStatusIdle == "idle"

StreamStatusStreaming == "streaming"

StreamStatusCompleted == "completed"

ErrSessionBusy == "session is busy"

ErrSessionNotFound == "session not found"

RequestIds == {"req-1", "req-2"}

ToolInputs == {"in1", "in2"}

VARIABLES
    sessions,          \* table sessions: id -> row
    nextSession,       \* number of session ids generated so far
    messages,          \* table messages, in insertion order
    events,            \* table session_events
    processes,         \* ClaudeManager.processes: sessionID -> pid
    pendingRequests,   \* ClaudeManager.pendingRequests: requestID -> entry
    mu,                \* ClaudeManager.mu: 0 when free, else the goroutine holding it
    procs,             \* the subprocesses started so far, by pid
    h,                 \* the Prompt handler goroutines
    del,               \* the DeleteSession handler, per session
    approvals,         \* the Approve requests served: status code, line written, entry taken
    faults,            \* number of store operations that failed on their own
    resp,              \* the result of the last read or delete call
    now,               \* the wall clock, in ticks of half a second
    window,            \* StartNewPrompt results per session since its last release
    granted,           \* prompt ids returned by successful StartNewPrompt calls
    assigned,          \* sequence numbers returned by CreateEvent, per prompt
    g,                 \* the goroutines calling the pending-request API
    stored,            \* last entry stored per request id and not removed since
    takeLog            \* results of GetPendingRequest per request id since the last store

\* the store and the clock its rows are stamped with
dbVars == <<sessions, nextSession, messages, events, now>>

cmVars == <<processes, pendingRequests, mu, procs>>

handlerVars == <<h, del, approvals, faults, resp>>

repoGhost == <<window, granted, assigned>>

cmGhost == <<g, stored, takeLog>>

vars == <<sessions, nextSession, messages, events, processes, pendingRequests, mu,
          procs, h, del, approvals, faults, resp, now, window, granted, assigned, g, stored, takeLog>>

\* ------------------------------------------------------------ map helpers
Remove(f, k) == [x \in DOMAIN f \ {k} |-> f[x]]

Put(f, k, v) == [x \in DOMAIN f \cup {k} |-> IF x = k THEN v ELSE f[x]]

MaxOf(S) == IF S = {} THEN 0 ELSE CHOOSE m \in S : \A n \in S : n <= m


\* ============================================================ Repository
\* CreateSession: a fresh uuid, stream_status idle, prompt_sequence 0.
NewSessionRow == [stream_status |-> StreamStatusIdle, prompt_sequence |-> 0,
                  claude_session_id |-> Nil]

\* fmt.Sprintf("%s-%d", sessionID, seq)
FormatPromptID(sessionID, seq) == sessionID \o "-" \o ToString(seq)

PromptIds(sessionID) == {FormatPromptID(sessionID, k) : k \in 1..MaxClaims}

PromptKeys == UNION {{<<s, p>> : p \in PromptIds(s)} : s \in SessionIds}

NotStreaming_Unguarded(status) == TRUE

\* WHERE ... AND stream_status != 'streaming'
NotStreaming(status) == status # StreamStatusStreaming

\* rows affected by the conditional UPDATE of StartNewPrompt
StartNewPromptClaims(sess, sessionID) ==
    /\ sessionID \in DOMAIN sess
    /\ NotStreaming(sess[sessionID].stream_status)

StartNewPromptSeq_Stale(sess, sessionID) == sess[sessionID].prompt_sequence

\* prompt_sequence = prompt_sequence + 1, read back inside the transaction
StartNewPromptSeq(sess, sessionID) == sess[sessionID].prompt_sequence + 1

\* an UPDATE that counts the prompt on every existing row
StartNewPromptSessions_CountsRejected(sess, sessionID) ==
    IF sessionID \in DOMAIN sess
    THEN [sess EXCEPT ![sessionID].stream_status = StreamStatusStreaming,
                      ![sessionID].prompt_sequence = sess[sessionID].prompt_sequence + 1]
    ELSE sess

StartNewPromptSessions(sess, sessionID) ==
    IF StartNewPromptClaims(sess, sessionID)
    THEN [sess EXCEPT ![sessionID].stream_status = StreamStatusStreaming,
                      ![sessionID].prompt_sequence = StartNewPromptSeq(sess, sessionID)]
    ELSE sess

\* the error StartNewPrompt returns ("" for none)
StartNewPromptErr(sess, sessionID) ==
    IF StartNewPromptClaims(sess, sessionID) THEN ""
    ELSE IF sessionID \notin DOMAIN sess THEN ErrSessionNotFound
    ELSE ErrSessionBusy

\* the prompt id StartNewPrompt returns ("" with an error)
StartNewPromptID(sess, sessionID) ==
    IF StartNewPromptClaims(sess, sessionID)
    THEN FormatPromptID(sessionID, StartNewPromptSessions(sess, sessionID)[sessionID].prompt_sequence)
    ELSE ""

\* an update that only releases a streaming session
UpdateSessionStreamStatus_OnlyFromStreaming(sess, id, status) ==
    IF id \in DOMAIN sess /\ sess[id].stream_status = StreamStatusStreaming
    THEN [sess EXCEPT ![id].stream_status = status] ELSE sess

UpdateSessionStreamStatus(sess, id, status) ==
    IF id \in DOMAIN sess THEN [sess EXCEPT ![id].stream_status = status] ELSE sess

UpdateSessionClaudeID(sess, id, claudeSessionID) ==
    IF id \in DOMAIN sess THEN [sess EXCEPT ![id].claude_session_id = claudeSessionID] ELSE sess

PromptEvents(ev, sessionID, promptID) ==
    {e \in ev : e.session_id = sessionID /\ e.prompt_id = promptID}

NextSequence_PerSession(ev, sessionID, promptID) ==
    MaxOf({e.sequence : e \in {x \in ev : x.session_id = sessionID}}) + 1

\* SELECT COALESCE(MAX(sequence), 0) + 1 ... WHERE session_id = ? AND prompt_id = ?
NextSequence(ev, sessionID, promptID) ==
    MaxOf({e.sequence : e \in PromptEvents(ev, sessionID, promptID)}) + 1

\* an INSERT without the foreign key on session_id
CreateEventOk_NoForeignKey(sess, sessionID, storeOk) == storeOk

\* the INSERT succeeds only if the session row exists (foreign key) and the store works
CreateEventOk(sess, sessionID, storeOk) == storeOk /\ sessionID \in DOMAIN sess

\* ticks per second of the wall clock
TicksPerSecond == 2

\* time.Time.Unix(): the whole seconds of an instant
Unix(t) == t \div TicksPerSecond

NewEvent(ev, sessionID, promptID, eventType, data) ==
    [session_id |-> sessionID, prompt_id |-> promptID,
     sequence |-> NextSequence(ev, sessionID, promptID),
     event_type |-> eventType, data |-> data, created_at |-> Unix(now)]

CreateEvent(ev, sess, sessionID, promptID, eventType, data, storeOk) ==
    IF CreateEventOk(sess, sessionID, storeOk)
    THEN ev \cup {NewEvent(ev, sessionID, promptID, eventType, data)}
    ELSE ev

CreateMessageOk(sess, sessionID, storeOk) == storeOk /\ sessionID \in DOMAIN sess

\* an INSERT that files every message under the role user
CreateMessage_AnyRole(msgs, sess, sessionID, role, content, toolCalls, storeOk) ==
    IF CreateMessageOk(sess, sessionID, storeOk)
    THEN Append(msgs, [session_id |-> sessionID, role |-> "user", content |-> content,
                       tool_calls |-> toolCalls])
    ELSE msgs

CreateMessage(msgs, sess, sessionID, role, content, toolCalls, storeOk) ==
    IF CreateMessageOk(sess, sessionID, storeOk)
    THEN Append(msgs, [session_id |-> sessionID, role |-> role, content |-> content,
                       tool_calls |-> toolCalls])
    ELSE msgs

\* DELETE FROM sessions WHERE id = ?, cascading to messages and session_events
DeleteSessionRows(sess, id) == Remove(sess, id)

DeleteSessionMessages(msgs, id) == SelectSeq(msgs, LAMBDA m : m.session_id # id)

\* a delete that leaves the events of the session behind
DeleteSessionEvents_NoCascade(ev, id) == ev

DeleteSessionEvents(ev, id) == {e \in ev : e.session_id # id}

\* ------------------------------------------------ Repository, any caller
RepoCreateSession ==
    /\ nextSession < NumSessions
    /\ nextSession' = nextSession + 1
    /\ sessions' = Put(sessions, SessionId(nextSession + 1), NewSessionRow)
    /\ UNCHANGED <<messages, events, now, cmVars, handlerVars, repoGhost, cmGhost>>

RepoDeleteSession(id) ==
    /\ id \in DOMAIN sessions
    /\ sessions' = DeleteSessionRows(sessions, id)
    /\ messages' = DeleteSessionMessages(messages, id)
    /\ events' = DeleteSessionEvents(events, id)
    /\ UNCHANGED <<nextSession, now, cmVars, handlerVars, repoGhost, cmGhost>>

RepoStartNewPrompt(id) ==
    /\ StartNewPromptClaims(sessions, id) => sessions[id].prompt_sequence < MaxClaims
    /\ Len(window[id]) < MaxWindow
    /\ sessions' = StartNewPromptSessions(sessions, id)
    /\ window' = IF id \in DOMAIN sessions
                 THEN [window EXCEPT ![id] = Append(@,
                         IF StartNewPromptErr(sessions, id) = ""
                         THEN StartNewPromptID(sessions, id)
                         ELSE StartNewPromptErr(sessions, id))]
                 ELSE window
    /\ granted' = IF StartNewPromptErr(sessions, id) = ""
                  THEN [granted EXCEPT ![id] = Append(@, StartNewPromptID(sessions, id))]
                  ELSE granted
    /\ UNCHANGED <<nextSession, now, messages, events, assigned, cmVars, handlerVars, cmGhost>>

RepoUpdateSessionStreamStatus(id, status) ==
    /\ id \in DOMAIN sessions
    /\ sessions' = UpdateSessionStreamStatus(sessions, id, status)
    /\ window' = [window EXCEPT ![id] = <<>>]
    /\ UNCHANGED <<nextSession, now, messages, events, granted, assigned, cmVars, handlerVars, cmGhost>>

RepoCreateEvent(id, promptID) ==
    /\ Cardinality(events) < MaxEvents
    /\ CreateEventOk(sessions, id, TRUE)
    /\ events' = CreateEvent(events, sessions, id, promptID, "claude", "line", TRUE)
    /\ assigned' = [assigned EXCEPT ![<<id, promptID>>] =
                        Append(@, NewEvent(events, id, promptID, "claude", "line").sequence)]
    /\ UNCHANGED <<sessions, nextSession, now, messages, window, granted, cmVars, handlerVars, cmGhost>>

NextRepo ==
    \/ RepoCreateSession
    \/ \E id \in SessionIds : RepoDeleteSession(id)
    \/ \E id \in SessionIds : RepoStartNewPrompt(id)
    \/ \E id \in SessionIds, status \in {StreamStatusIdle, StreamStatusCompleted} :
            RepoUpdateSessionStreamStatus(id, status)
    \/ \E id \in SessionIds : \E p \in PromptIds(id) : RepoCreateEvent(id, p)


\* ========================================================= ClaudeManager
PendingRequest(sessionID, requestID, toolInput) ==
    [RequestID |-> requestID, SessionID |-> sessionID, ToolInput |-> toolInput]

MuFree_NoLock(m) == TRUE

\* cm.mu.Lock() blocks until no goroutine holds the mutex
MuFree(m) == m = 0

\* req, ok := cm.pendingRequests[requestID]; <<>> is the nil pointer
LookupPending(pending, requestID) ==
    IF requestID \in DOMAIN pending THEN <<pending[requestID]>> ELSE <<>>

\* if ok { delete(cm.pendingRequests, requestID) }
TakePending(pending, requestID, req) ==
    IF req # <<>> THEN Remove(pending, requestID) ELSE pending

\* a sweep without the session test
SweepPending_All(pending, sessionID) == <<>>

\* for reqID, req := range cm.pendingRequests { if req.SessionID == sessionID { delete } }
SweepPending(pending, sessionID) ==
    [x \in {k \in DOMAIN pending : pending[k].SessionID # sessionID} |-> pending[x]]

IdleCaller == [pc |-> "idle", sessionID |-> "", requestID |-> "", toolInput |-> "", req |-> <<>>]

\* ---------------------------------- pending-request API, any goroutine
CMStoreLock(c, sessionID, requestID, toolInput) ==
    /\ g[c].pc = "idle"
    /\ MuFree(mu)
    /\ mu' = c
    /\ g' = [g EXCEPT ![c] = [IdleCaller EXCEPT !.pc = "store", !.sessionID = sessionID,
                                 !.requestID = requestID, !.toolInput = toolInput]]
    /\ UNCHANGED <<dbVars, processes, pendingRequests, procs, handlerVars, repoGhost,
                   stored, takeLog>>

CMStoreWrite(c) ==
    /\ g[c].pc = "store"
    /\ pendingRequests' = Put(pendingRequests, g[c].requestID,
                              PendingRequest(g[c].sessionID, g[c].requestID, g[c].toolInput))
    /\ mu' = 0
    /\ stored' = [stored EXCEPT ![g[c].requestID] =
                      <<PendingRequest(g[c].sessionID, g[c].requestID, g[c].toolInput)>>]
    /\ takeLog' = [takeLog EXCEPT ![g[c].requestID] = <<>>]
    /\ g' = [g EXCEPT ![c] = IdleCaller]
    /\ UNCHANGED <<dbVars, processes, procs, handlerVars, repoGhost>>

CMGetLock(c, requestID) ==
    /\ g[c].pc = "idle"
    /\ Len(takeLog[requestID])
         + Cardinality({x \in Callers : g[x].pc \in {"get_read", "get_delete"}
                                        /\ g[x].requestID = requestID}) < MaxTakes
    /\ MuFree(mu)
    /\ mu' = c
    /\ g' = [g EXCEPT ![c] = [IdleCaller EXCEPT !.pc = "get_read", !.requestID = requestID]]
    /\ UNCHANGED <<dbVars, processes, pendingRequests, procs, handlerVars, repoGhost,
                   stored, takeLog>>

CMGetRead(c) ==
    /\ g[c].pc = "get_read"
    /\ g' = [g EXCEPT ![c].req = LookupPending(pendingRequests, g[c].requestID),
                      ![c].pc = "get_delete"]
    /\ UNCHANGED <<dbVars, cmVars, handlerVars, repoGhost, stored, takeLog>>

CMGetReturn(c) ==
    /\ g[c].pc = "get_delete"
    /\ pendingRequests' = TakePending(pendingRequests, g[c].requestID, g[c].req)
    /\ mu' = 0
    /\ takeLog' = [takeLog EXCEPT ![g[c].requestID] = Append(@, g[c].req)]
    /\ g' = [g EXCEPT ![c] = IdleCaller]
    /\ UNCHANGED <<dbVars, processes, procs, handlerVars, repoGhost, stored>>

NextCM ==
    \/ \E c \in Callers, s \in SessionIds, rid \in RequestIds, inp \in ToolInputs :
            CMStoreLock(c, s, rid, inp)
    \/ \E c \in Callers : CMStoreWrite(c)
    \/ \E c \in Callers, rid \in RequestIds : CMGetLock(c, rid)
    \/ \E c \in Callers : CMGetRead(c)
    \/ \E c \in Callers : CMGetReturn(c)

\* ================================================================ Handlers
\* ---------------------------------------------------------- request values
PromptBodies == {[json |-> TRUE, prompt |-> <<"h", "i">>],
                 [json |-> TRUE, prompt |-> <<" ">>],
                 [json |-> FALSE, prompt |-> <<>>]}

RECURSIVE TrimLeft(_)
TrimLeft(str) == IF str # <<>> /\ Head(str) = " " THEN TrimLeft(Tail(str)) ELSE str

RECURSIVE TrimRight(_)
TrimRight(str) ==
    IF str # <<>> /\ str[Len(str)] = " " THEN TrimRight(SubSeq(str, 1, Len(str) - 1)) ELSE str

\* a validation that does not trim
TrimSpace_None(str) == str

\* strings.TrimSpace
TrimSpace(str) == TrimRight(TrimLeft(str))

\* the JSON payloads of the events the handler itself emits
ConnectedData(id, promptID) == <<"session_id", id, "prompt_id", promptID>>

ErrorData(msg) == <<"error", msg>>

DoneData == <<"status", "complete">>

\* ------------------------------------------------- subprocess stdout lines
\* a line of the stream-json protocol: <<"type", tag, payload>>; any other
\* shape is a line that is not valid JSON
AssistantTextLine == <<"type", "assistant", "text", "A">>

AssistantToolLine == <<"type", "assistant", "tool_use", "T">>

DeltaLine == <<"type", "content_block_delta", "text_delta", "d">>

ResultLine(sid) == <<"type", "result", "session_id", sid>>

InvalidLine == <<"not json">>

\* the session id the subprocess with this pid reports in its result event
ClaudeSessionIdOf(pid) == "c" \o ToString(pid)

StdoutLines(pid) ==
    {AssistantTextLine, AssistantToolLine, DeltaLine, ResultLine(ClaudeSessionIdOf(pid)),
     InvalidLine}

\* json.Unmarshal(line, &event) succeeds
LineValid(line) == Len(line) = 4 /\ line[1] = "type"

\* event.Type
LineType(line) == IF LineValid(line) THEN line[2] ELSE ""

\* a scan loop that treats a result line like any other line
IsResultLine_Never(line) == FALSE

IsResultLine(line) == LineValid(line) /\ LineType(line) = "result"

\* --------------------------------------------------------- handler frames
IdleFrame ==
    [pc |-> "idle", id |-> "", prompt |-> <<>>, claude |-> Nil, promptID |-> "",
     clientGone |-> FALSE, timedOut |-> FALSE, pid |-> 0, ran |-> FALSE, runErr |-> "",
     resultSessionID |-> "", content |-> <<>>, toolCalls |-> 0, lines |-> 0,
     code |-> 0, frames |-> <<>>, relVal |-> "", released |-> "", final |-> "",
     finalPersisted |-> FALSE, cancelledRunning |-> FALSE, storeFailed |-> FALSE]

\* a context without the deadline of context.WithTimeout
CtxDone_NoDeadline(fr) == fr.clientGone \/ fr.pc = "done"

\* r.Context() is done once the client is gone; the context derived from it
\* with the prompt timeout is also done on expiry and after the deferred cancel()
CtxDone(fr) == fr.clientGone \/ fr.timedOut \/ fr.pc = "done"

\* a relay that also gives up after a failed append
WriteFails_OrStore(fr) == fr.clientGone \/ fr.storeFailed

\* fmt.Fprintf(w, ...) fails once the client has disconnected
WriteFails(fr) == fr.clientGone

\* a relay that stores error events without sending them
WriteFrame_StoredOnly(fr, eventType, data) ==
    IF WriteFails(fr) \/ eventType = "error" THEN fr.frames
    ELSE Append(fr.frames, [event |-> eventType, data |-> data])

\* the frames the client has received after one more write
WriteFrame(fr, eventType, data) ==
    IF WriteFails(fr) THEN fr.frames
    ELSE Append(fr.frames, [event |-> eventType, data |-> data])

RECURSIVE SumLines(_, _)
SumLines(frames, n) == IF n = 0 THEN 0 ELSE frames[n].lines + SumLines(frames, n - 1)

\* stdout lines read so far, over all requests
TotalLines == SumLines(h, NumRequests)

\* disconnects and timeouts so far, over all requests
TotalCancels ==
    Cardinality({r \in Requests : h[r].clientGone}) + Cardinality({r \in Requests : h[r].timedOut})

\* a store operation fails on its own (disk, lock) at most MaxFaults times
FaultAllowed(storeOk, wouldSucceed) == storeOk \/ (faults < MaxFaults /\ wouldSucceed)

FaultsAfter(storeOk) == IF storeOk THEN faults ELSE faults + 1

InRunPrompt(fr) == fr.pc \in {"write", "scan", "wait"}

ProcAlive(pid) == pid \in 1..Len(procs) /\ procs[pid].alive

\* the requests that hold the prompt slot of session id
HoldingPcs == {"saveUser", "connected", "start", "write", "scan", "wait", "afterRun",
               "final", "release"}

Holders(id) == {r \in Requests : h[r].id = id /\ h[r].pc \in HoldingPcs}

\* ----------------------------------------------------- Handlers.Prompt
\* URL parameter, body decoding, prompt validation and GetSession
PromptGetSession(r, id, body) ==
    /\ h[r].pc = "idle"
    /\ IF r = 1 THEN TRUE ELSE h[r - 1].pc # "idle"
    /\ h' = [h EXCEPT ![r] =
          IF ~body.json \/ TrimSpace(body.prompt) = <<>>
          THEN [IdleFrame EXCEPT !.pc = "done", !.id = id, !.code = 400]
          ELSE IF id \notin DOMAIN sessions
          THEN [IdleFrame EXCEPT !.pc = "done", !.id = id, !.code = 404]
          ELSE [IdleFrame EXCEPT !.pc = "claim", !.id = id, !.prompt = body.prompt,
                                 !.claude = sessions[id].claude_session_id]]
    /\ UNCHANGED <<dbVars, cmVars, del, approvals, resp, faults, repoGhost, cmGhost>>

PromptStartNewPrompt(r) ==
    /\ h[r].pc = "claim"
    /\ sessions' = StartNewPromptSessions(sessions, h[r].id)
    /\ h' = [h EXCEPT ![r] =
          IF StartNewPromptErr(sessions, h[r].id) = ""
          THEN [@ EXCEPT !.pc = "saveUser", !.promptID = StartNewPromptID(sessions, h[r].id)]
          ELSE IF StartNewPromptErr(sessions, h[r].id) = ErrSessionBusy
          THEN [@ EXCEPT !.pc = "done", !.code = 409]
          ELSE [@ EXCEPT !.pc = "done", !.code = 500]]
    /\ UNCHANGED <<nextSession, now, messages, events, cmVars, del, approvals, resp, faults, repoGhost, cmGhost>>

\* CreateMessage(id, "user", ...); on failure the slot goes back to idle
PromptSaveUser(r, storeOk) ==
    /\ h[r].pc = "saveUser"
    /\ FaultAllowed(storeOk, h[r].id \in DOMAIN sessions)
    /\ faults' = FaultsAfter(storeOk)
    /\ messages' = CreateMessage(messages, sessions, h[r].id, "user", h[r].prompt, 0, storeOk)
    /\ h' = [h EXCEPT ![r] =
          IF CreateMessageOk(sessions, h[r].id, storeOk)
          THEN [@ EXCEPT !.pc = "connected"]
          ELSE [@ EXCEPT !.pc = "release", !.relVal = StreamStatusIdle, !.code = 500]]
    /\ UNCHANGED <<sessions, nextSession, now, events, cmVars, del, approvals, resp, repoGhost, cmGhost>>

\* sendEvent("connected", ...): persist, then write to the client
PromptConnected(r, storeOk) ==
    /\ h[r].pc = "connected"
    /\ FaultAllowed(storeOk, h[r].id \in DOMAIN sessions)
    /\ faults' = FaultsAfter(storeOk)
    /\ events' = CreateEvent(events, sessions, h[r].id, h[r].promptID, "connected",
                             ConnectedData(h[r].id, h[r].promptID), storeOk)
    /\ h' = [h EXCEPT ![r] =
          [@ EXCEPT !.frames = WriteFrame(h[r], "connected", ConnectedData(h[r].id, h[r].promptID)),
                    !.code = 200,
                    !.storeFailed = @ \/ ~CreateEventOk(sessions, h[r].id, storeOk),
                    !.pc = IF WriteFails(h[r]) THEN "release" ELSE "start",
                    !.relVal = IF WriteFails(h[r]) THEN StreamStatusIdle ELSE ""]]
    /\ UNCHANGED <<sessions, nextSession, now, messages, cmVars, del, approvals, resp, repoGhost, cmGhost>>

\* ------------------------------------------------ ClaudeManager.RunPrompt
NewProc(r, id, promptID, claude) ==
    [session |-> id, promptID |-> promptID, owner |-> r, resume |-> claude,
     alive |-> TRUE, exit |-> "", stdinOpen |-> TRUE, stdin |-> <<>>]

\* cmd.Process.Kill(): no effect on a process that has exited
KillProc(ps, pid) ==
    IF ps[pid].alive THEN [ps EXCEPT ![pid].alive = FALSE, ![pid].exit = "killed"] ELSE ps

CloseStdin(ps, pid) == [ps EXCEPT ![pid].stdinOpen = FALSE]

\* the deferred function of RunPrompt: delete(cm.processes, sessionID)
Untrack(table, id) == Remove(table, id)

\* the user message written to stdin
UserMessage(prompt) == <<"user", prompt>>

\* exec.CommandContext(...).Start(), then cm.processes[sessionID] = proc
RunPromptStart(r, spawnOk) ==
    /\ h[r].pc = "start"
    /\ IF spawnOk /\ ~CtxDone(h[r])
       THEN /\ procs' = Append(procs, NewProc(r, h[r].id, h[r].promptID, h[r].claude))
            /\ processes' = Put(processes, h[r].id, Len(procs) + 1)
            /\ h' = [h EXCEPT ![r] = [@ EXCEPT !.pc = "write", !.pid = Len(procs) + 1,
                                                !.ran = TRUE]]
       ELSE /\ h' = [h EXCEPT ![r] = [@ EXCEPT !.pc = "afterRun", !.ran = TRUE,
                                                !.runErr = "start"]]
            /\ UNCHANGED <<procs, processes>>
    /\ UNCHANGED <<dbVars, pendingRequests, mu, del, approvals, resp, faults, repoGhost, cmGhost>>

\* stdin.Write(msgData): fails with a broken pipe once the subprocess is gone
RunPromptWrite(r) ==
    /\ h[r].pc = "write"
    /\ IF procs[h[r].pid].alive
       THEN /\ procs' = [procs EXCEPT ![h[r].pid].stdin = Append(@, UserMessage(h[r].prompt))]
            /\ h' = [h EXCEPT ![r].pc = "scan"]
            /\ UNCHANGED processes
       ELSE /\ procs' = CloseStdin(procs, h[r].pid)
            /\ processes' = Untrack(processes, h[r].id)
            /\ h' = [h EXCEPT ![r] = [@ EXCEPT !.pc = "afterRun", !.runErr = "write prompt"]]
    /\ UNCHANGED <<dbVars, pendingRequests, mu, del, approvals, resp, faults, repoGhost, cmGhost>>

\* the onEvent callback of Handlers.Prompt
OnEventType(line) == IF LineValid(line) THEN "claude" ELSE "error"

OnEventData(line) == IF LineValid(line) THEN line ELSE ErrorData("invalid JSON from Claude")

\* assistantContent after the callback handled the line
Accumulate(content, line) ==
    IF LineType(line) = "assistant" /\ line[3] = "text" THEN content \o <<line[4]>>
    ELSE IF LineType(line) = "content_block_delta" /\ line[3] = "text_delta"
    THEN content \o <<line[4]>>
    ELSE content

AccumulateTools(n, line) ==
    IF LineType(line) = "assistant" /\ line[3] = "tool_use" THEN n + 1 ELSE n

\* the frame after onEvent(line): the write, then the accumulation unless the write failed
OnEventFrame(fr, line, persisted) ==
    [fr EXCEPT !.frames = WriteFrame(fr, OnEventType(line), OnEventData(line)),
               !.storeFailed = @ \/ ~persisted,
               !.content = IF WriteFails(fr) THEN @ ELSE Accumulate(@, line),
               !.toolCalls = IF WriteFails(fr) THEN @ ELSE AccumulateTools(@, line)]

\* scanner.Scan() delivers one stdout line
RunPromptScanLine(r, line, storeOk) ==
    /\ h[r].pc = "scan"
    /\ TotalLines < MaxLines
    /\ FaultAllowed(storeOk, h[r].id \in DOMAIN sessions)
    /\ faults' = FaultsAfter(storeOk)
    /\ line \in StdoutLines(h[r].pid)
    /\ events' = CreateEvent(events, sessions, h[r].id, h[r].promptID, OnEventType(line),
                             OnEventData(line), storeOk)
    /\ LET fr == [OnEventFrame(h[r], line, CreateEventOk(sessions, h[r].id, storeOk))
                    EXCEPT !.lines = @ + 1]
       IN IF IsResultLine(line)
          THEN \* onEvent(line) with its error dropped, stdin.Close(), break
               /\ h' = [h EXCEPT ![r] = [fr EXCEPT !.pc = "wait", !.resultSessionID = line[4]]]
               /\ procs' = CloseStdin(procs, h[r].pid)
               /\ UNCHANGED processes
          ELSE IF WriteFails(h[r])
          THEN \* the callback failed: cmd.Process.Kill() and return its error
               /\ h' = [h EXCEPT ![r] = [fr EXCEPT !.pc = "afterRun", !.runErr = "callback"]]
               /\ procs' = CloseStdin(KillProc(procs, h[r].pid), h[r].pid)
               /\ processes' = Untrack(processes, h[r].id)
          ELSE /\ h' = [h EXCEPT ![r] = fr]
               /\ UNCHANGED <<procs, processes>>
    /\ UNCHANGED <<sessions, nextSession, now, messages, pendingRequests, mu, del, approvals, resp,
                   repoGhost, cmGhost>>

\* scanner.Scan() returns false at end of stdout: the subprocess is gone
RunPromptScanEOF(r) ==
    /\ h[r].pc = "scan"
    /\ ~procs[h[r].pid].alive
    /\ h' = [h EXCEPT ![r].pc = "wait"]
    /\ UNCHANGED <<dbVars, cmVars, del, approvals, resp, faults, repoGhost, cmGhost>>

\* scanner.Err(): a line longer than the 1 MiB buffer; RunPrompt returns without
\* killing or waiting for the subprocess
RunPromptScanErr(r) ==
    /\ h[r].pc = "scan"
    /\ TotalLines < MaxLines
    /\ h' = [h EXCEPT ![r] = [@ EXCEPT !.pc = "afterRun", !.runErr = "scanner"]]
    /\ procs' = CloseStdin(procs, h[r].pid)
    /\ processes' = Untrack(processes, h[r].id)
    /\ UNCHANGED <<dbVars, pendingRequests, mu, del, approvals, resp, faults, repoGhost, cmGhost>>

\* the error of cmd.Wait() as RunPrompt reports it
WaitErr(exit, ctxDone) ==
    IF exit = "ok" THEN "" ELSE IF ctxDone THEN "context" ELSE "wait"

\* cmd.Wait() returns once the subprocess has exited
RunPromptWait(r) ==
    /\ h[r].pc = "wait"
    /\ ~procs[h[r].pid].alive
    /\ h' = [h EXCEPT ![r] = [@ EXCEPT !.pc = "afterRun",
                                      !.runErr = WaitErr(procs[h[r].pid].exit, CtxDone(h[r]))]]
    /\ procs' = CloseStdin(procs, h[r].pid)
    /\ processes' = Untrack(processes, h[r].id)
    /\ UNCHANGED <<dbVars, pendingRequests, mu, del, approvals, resp, faults, repoGhost, cmGhost>>

\* ------------------------------------- Handlers.Prompt after RunPrompt
\* the assistant message, if any content was accumulated, and the new Claude session id
PromptAfterRun(r, storeOk) ==
    /\ h[r].pc = "afterRun"
    /\ FaultAllowed(storeOk, h[r].id \in DOMAIN sessions /\ h[r].content # <<>>)
    /\ faults' = FaultsAfter(storeOk)
    /\ messages' = IF h[r].content # <<>>
                   THEN CreateMessage(messages, sessions, h[r].id, "assistant", h[r].content,
                                      h[r].toolCalls, storeOk)
                   ELSE messages
    /\ sessions' = IF h[r].resultSessionID # "" /\ h[r].claude # h[r].resultSessionID
                   THEN UpdateSessionClaudeID(sessions, h[r].id, h[r].resultSessionID)
                   ELSE sessions
    /\ h' = [h EXCEPT ![r].pc = "final"]
    /\ UNCHANGED <<nextSession, now, events, cmVars, del, approvals, resp, repoGhost, cmGhost>>

FinalStatus_AlwaysCompleted(runErr) == StreamStatusCompleted

\* the status the slot is released to
FinalStatus(runErr) == IF runErr # "" THEN StreamStatusIdle ELSE StreamStatusCompleted

\* the terminal event
FinalEvent(runErr) == IF runErr # "" THEN "error" ELSE "done"

FinalData(runErr) == IF runErr # "" THEN ErrorData(runErr) ELSE DoneData

\* sendEvent("error" | "done", ...), its error dropped
PromptFinal(r, storeOk) ==
    /\ h[r].pc = "final"
    /\ FaultAllowed(storeOk, h[r].id \in DOMAIN sessions)
    /\ faults' = FaultsAfter(storeOk)
    /\ events' = CreateEvent(events, sessions, h[r].id, h[r].promptID, FinalEvent(h[r].runErr),
                             FinalData(h[r].runErr), storeOk)
    /\ h' = [h EXCEPT ![r] =
          [@ EXCEPT !.frames = WriteFrame(h[r], FinalEvent(h[r].runErr), FinalData(h[r].runErr)),
                    !.final = FinalEvent(h[r].runErr),
                    !.finalPersisted = CreateEventOk(sessions, h[r].id, storeOk),
                    !.storeFailed = @ \/ ~CreateEventOk(sessions, h[r].id, storeOk),
                    !.relVal = FinalStatus(h[r].runErr),
                    !.pc = "release"]]
    /\ UNCHANGED <<sessions, nextSession, now, messages, cmVars, del, approvals, resp, repoGhost, cmGhost>>

\* UpdateSessionStreamStatus(id, ...) and return; the deferred cancel() runs
PromptRelease(r) ==
    /\ h[r].pc = "release"
    /\ sessions' = UpdateSessionStreamStatus(sessions, h[r].id, h[r].relVal)
    /\ h' = [h EXCEPT ![r] = [@ EXCEPT !.pc = "done", !.released = h[r].relVal]]
    /\ UNCHANGED <<nextSession, now, messages, events, cmVars, del, approvals, resp, faults, repoGhost, cmGhost>>

\* ------------------------------------------------------------ environment
\* the client closes the connection: r.Context() is cancelled, writes fail
ClientDisconnect(r) ==
    /\ h[r].pc \in {"connected", "start", "write", "scan", "wait", "final"}
    /\ ~h[r].clientGone
    /\ TotalCancels < MaxCancels
    /\ h' = [h EXCEPT ![r] = [@ EXCEPT !.clientGone = TRUE,
                !.cancelledRunning = @ \/ (InRunPrompt(h[r]) /\ ProcAlive(h[r].pid))]]
    /\ UNCHANGED <<dbVars, cmVars, del, approvals, resp, faults, repoGhost, cmGhost>>

\* the prompt timeout of context.WithTimeout expires
Timeout(r) ==
    /\ InRunPrompt(h[r])
    /\ ~h[r].timedOut
    /\ TotalCancels < MaxCancels
    /\ h' = [h EXCEPT ![r] = [@ EXCEPT !.timedOut = TRUE,
                !.cancelledRunning = @ \/ ProcAlive(h[r].pid)]]
    /\ UNCHANGED <<dbVars, cmVars, del, approvals, resp, faults, repoGhost, cmGhost>>

\* exec.CommandContext: the subprocess is killed once its context is done
CtxKill(pid) ==
    /\ pid \in 1..Len(procs)
    /\ procs[pid].alive
    /\ CtxDone(h[procs[pid].owner])
    /\ procs' = KillProc(procs, pid)
    /\ UNCHANGED <<dbVars, processes, pendingRequests, mu, handlerVars, repoGhost, cmGhost>>

\* the subprocess exits by itself, with status 0 or not
ProcExit(pid, exit) ==
    /\ pid \in 1..Len(procs)
    /\ procs[pid].alive
    /\ procs' = [procs EXCEPT ![pid].alive = FALSE, ![pid].exit = exit]
    /\ UNCHANGED <<dbVars, processes, pendingRequests, mu, handlerVars, repoGhost, cmGhost>>

\* ------------------------------------------- ClaudeManager.KillProcess
KillProcessPending(pending, sessionID) == SweepPending(pending, sessionID)

KillProcessProcs(ps, table, sessionID) ==
    IF sessionID \in DOMAIN table THEN KillProc(ps, table[sessionID]) ELSE ps

\* ------------------------------------------------ Handlers.CreateSession
HandleCreateSession ==
    /\ nextSession < MaxCreates
    /\ nextSession' = nextSession + 1
    /\ sessions' = Put(sessions, SessionId(nextSession + 1), NewSessionRow)
    /\ UNCHANGED <<messages, events, now, cmVars, handlerVars, repoGhost, cmGhost>>

\* ------------------------------------------------ Handlers.DeleteSession
\* h.claude.KillProcess(id)
HandleDeleteKill(id) ==
    /\ del[id] = "none"
    /\ id \in DOMAIN sessions
    /\ MuFree(mu)
    /\ pendingRequests' = KillProcessPending(pendingRequests, id)
    /\ procs' = KillProcessProcs(procs, processes, id)
    /\ del' = [del EXCEPT ![id] = "killed"]
    /\ UNCHANGED <<dbVars, processes, mu, h, approvals, faults, resp, repoGhost, cmGhost>>

\* h.repo.DeleteSession(id)
HandleDeleteRow(id) ==
    /\ del[id] = "killed"
    /\ sessions' = DeleteSessionRows(sessions, id)
    /\ messages' = DeleteSessionMessages(messages, id)
    /\ events' = DeleteSessionEvents(events, id)
    /\ del' = [del EXCEPT ![id] = "done"]
    /\ UNCHANGED <<nextSession, now, cmVars, h, approvals, faults, resp, repoGhost, cmGhost>>

\* ------------------------------ ClaudeManager.SendPermissionResponse
\* json.Marshal of one struct field: a field tagged omitempty is left out when
\* its value is empty (a nil pointer, an empty string, a map without entries)
Field(key, value) == <<key, value>>

OmitEmpty(key, value, empty) == IF empty THEN <<>> ELSE <<key, value>>

\* a map[string]any without entries
EmptyMap == "{}"

\* updatedInput of the allow decision: the stored input, else make(map[string]any)
UpdatedInput(pendingReq) ==
    IF pendingReq # <<>> /\ pendingReq[1].ToolInput # Nil
    THEN pendingReq[1].ToolInput ELSE EmptyMap

\* the deny decision reported as a control error
DenySubtype == "error"

\* json.Marshal(NestedControlResponse{...}) for the decision, as key/value pairs
PermissionResponseLine(requestID, decision, pendingReq) ==
    IF decision = "allow"
    THEN Field("type", "control_response")
            \o Field("response.subtype", "success")
            \o Field("response.request_id", requestID)
            \o Field("response.response.behavior", "allow")
            \o OmitEmpty("response.response.updatedInput", UpdatedInput(pendingReq),
                         UpdatedInput(pendingReq) = EmptyMap)
    ELSE Field("type", "control_response")
            \o Field("response.subtype", DenySubtype)
            \o Field("response.request_id", requestID)
            \o OmitEmpty("response.error", "User denied permission", FALSE)

\* proc.stdin.Write(data) succeeds while the pipe is open at both ends
StdinWritable(proc) == proc.alive /\ proc.stdinOpen

\* the bodies of Approve requests
ApproveBodies ==
    {[json |-> TRUE, tool_use_id |-> "req-1", decision |-> "allow"],
     [json |-> TRUE, tool_use_id |-> "req-1", decision |-> "deny"],
     [json |-> TRUE, tool_use_id |-> "", decision |-> "allow"],
     [json |-> TRUE, tool_use_id |-> "req-1", decision |-> "maybe"],
     [json |-> FALSE, tool_use_id |-> "", decision |-> ""]}

\* the three checks of Handlers.Approve before SendPermissionResponse
ApproveValid(body) ==
    /\ body.json
    /\ body.tool_use_id # ""
    /\ body.decision = "allow" \/ body.decision = "deny"

ErrNoProcess == "no active process for session"

ErrWrite == "write"

\* one served Approve request: status code, error text, stdin line, entry taken
Served(code, err, line, taken) == [code |-> code, err |-> err, line |-> line, taken |-> taken]

\* a lookup that finds a process for every session
NoProcess_Never(table, id) == FALSE

\* proc, ok := cm.processes[sessionID]; !ok
NoProcess(table, id) == id \notin DOMAIN table

\* SendPermissionResponse returns nil
SendOk(table, ps, id) == id \in DOMAIN table /\ StdinWritable(ps[table[id]])

\* Handlers.Approve, with SendPermissionResponse for a well-formed body
Approve(id, body) ==
    /\ MuFree(mu)
    /\ IF ~ApproveValid(body)
       THEN /\ approvals' = Append(approvals, Served(400, "bad request", <<>>, <<>>))
            /\ UNCHANGED <<pendingRequests, procs>>
       ELSE IF NoProcess(processes, id)
       THEN /\ approvals' = Append(approvals, Served(500, ErrNoProcess, <<>>, <<>>))
            /\ UNCHANGED <<pendingRequests, procs>>
       ELSE LET pendingReq == LookupPending(pendingRequests, body.tool_use_id)
                line == PermissionResponseLine(body.tool_use_id, body.decision, pendingReq)
            IN /\ pendingRequests' = TakePending(pendingRequests, body.tool_use_id, pendingReq)
               /\ procs' = IF SendOk(processes, procs, id)
                           THEN [procs EXCEPT ![processes[id]].stdin = Append(@, line)]
                           ELSE procs
               /\ approvals' = Append(approvals,
                      IF SendOk(processes, procs, id) THEN Served(200, "", line, pendingReq)
                      ELSE Served(500, ErrWrite, <<>>, pendingReq))
    /\ UNCHANGED <<dbVars, processes, mu, h, del, faults, resp, repoGhost, cmGhost>>

\* ------------------------------------------------------------------ panic
\* a panic inside the Prompt handler after the claim, recovered by
\* middleware.Recoverer: only the deferred functions run (the cleanup of
\* RunPrompt when the panic passes through it, and cancel())
Panic(r) ==
    /\ h[r].pc \in HoldingPcs
    /\ h' = [h EXCEPT ![r] = [@ EXCEPT !.pc = "done", !.code = 500]]
    /\ IF InRunPrompt(h[r])
       THEN /\ procs' = CloseStdin(procs, h[r].pid)
            /\ processes' = Untrack(processes, h[r].id)
       ELSE UNCHANGED <<procs, processes>>
    /\ UNCHANGED <<dbVars, pendingRequests, mu, del, approvals, resp, faults, repoGhost, cmGhost>>

\* ------------------------------- the process table, any goroutine
\* RunPrompt after cmd.Start(): cm.processes[sessionID] = proc
CMRegister(id) ==
    /\ Len(procs) < MaxProcs
    /\ MuFree(mu)
    /\ procs' = Append(procs, NewProc(0, id, "", Nil))
    /\ processes' = Put(processes, id, Len(procs) + 1)
    /\ UNCHANGED <<dbVars, pendingRequests, mu, handlerVars, repoGhost, cmGhost>>

\* the deferred function of RunPrompt: delete(cm.processes, sessionID), stdin.Close()
CMUnregister(pid) ==
    /\ pid \in 1..Len(procs)
    /\ procs[pid].stdinOpen
    /\ MuFree(mu)
    /\ procs' = CloseStdin(procs, pid)
    /\ processes' = Untrack(processes, procs[pid].session)
    /\ UNCHANGED <<dbVars, pendingRequests, mu, handlerVars, repoGhost, cmGhost>>

\* ------------------------------------------------- reads of the store
\* strconv.Atoi / strconv.ParseInt(s, 10, 64) on a string of characters: an
\* optional sign and at least one decimal digit, anything else is an error
Digits == <<"0", "1", "2", "3", "4", "5", "6", "7", "8", "9">>

IsDigit(c) == \E i \in 1..Len(Digits) : Digits[i] = c

DigitValue(c) == (CHOOSE i \in 1..Len(Digits) : Digits[i] = c) - 1

RECURSIVE DigitsValue(_)
DigitsValue(str) ==
    IF str = <<>> THEN 0
    ELSE DigitsValue(SubSeq(str, 1, Len(str) - 1)) * 10 + DigitValue(str[Len(str)])

Unsigned(str) == IF str # <<>> /\ Head(str) \in {"+", "-"} THEN Tail(str) ELSE str

Atoi(str) ==
    IF Unsigned(str) = <<>> \/ \E i \in 1..Len(Unsigned(str)) : ~IsDigit(Unsigned(str)[i])
    THEN [ok |-> FALSE, value |-> 0]
    ELSE [ok |-> TRUE,
          value |-> IF Head(str) = "-" THEN 0 - DigitsValue(Unsigned(str))
                    ELSE DigitsValue(Unsigned(str))]

\* ------------------------------------------------------- configuration
Options == {"port", "db", "workdir", "claude-cmd", "prompt-timeout", "shutdown-timeout"}

\* durations in milliseconds
Second == 1000

Minute == 60 * Second

Hour == 60 * Minute

defaultPort == 8080

defaultDBPath == "chai.db"

defaultWorkDir == ""

defaultClaudeCmd == "claude"

defaultPromptTimeout == 5 * Minute

defaultShutdownTimeout == 30 * Second

\* the flag values as RegisterFlags leaves them when no flag is given
DefaultFlags ==
    [port |-> defaultPort, dbPath |-> defaultDBPath, workDir |-> defaultWorkDir,
     claudeCmd |-> defaultClaudeCmd, promptTimeout |-> defaultPromptTimeout,
     shutdownTimeout |-> defaultShutdownTimeout]

NoEnv ==
    [CHAI_PORT |-> <<>>, CHAI_DB |-> "", CHAI_WORKDIR |-> "", CHAI_CLAUDE_CMD |-> "",
     CHAI_PROMPT_TIMEOUT |-> <<>>, CHAI_SHUTDOWN_TIMEOUT |-> <<>>]

NoInput == [f |-> DefaultFlags, env |-> NoEnv, wasSet |-> {}]

\* cfg == nil
NilConfig ==
    [Port |-> 0, DBPath |-> "", WorkDir |-> "", ClaudeCmd |-> "", PromptTimeout |-> 0,
     ShutdownTimeout |-> 0]

\* time.ParseDuration on terms of whole numbers with the units ms, s, m, h
UnitValue(u) ==
    CASE u = <<"m", "s">> -> 1
      [] u = <<"s">> -> Second
      [] u = <<"m">> -> Minute
      [] u = <<"h">> -> Hour
      [] OTHER -> 0

RECURSIVE LeadingDigits(_)
LeadingDigits(str) ==
    IF str = <<>> THEN <<>>
    ELSE IF IsDigit(Head(str)) THEN <<Head(str)>> \o LeadingDigits(Tail(str)) ELSE <<>>

RECURSIVE LeadingUnit(_)
LeadingUnit(str) ==
    IF str = <<>> THEN <<>>
    ELSE IF IsDigit(Head(str)) THEN <<>> ELSE <<Head(str)>> \o LeadingUnit(Tail(str))

RECURSIVE ParseTerms(_)
ParseTerms(str) ==
    IF str = <<>> THEN [ok |-> TRUE, value |-> 0]
    ELSE LET d == LeadingDigits(str)
             afterDigits == SubSeq(str, Len(d) + 1, Len(str))
             u == LeadingUnit(afterDigits)
             rest == SubSeq(afterDigits, Len(u) + 1, Len(afterDigits))
         IN IF d = <<>> \/ UnitValue(u) = 0 THEN [ok |-> FALSE, value |-> 0]
            ELSE LET r == ParseTerms(rest)
                 IN IF r.ok THEN [ok |-> TRUE, value |-> DigitsValue(d) * UnitValue(u) + r.value]
                    ELSE [ok |-> FALSE, value |-> 0]

ParseDuration(str) ==
    LET s == Unsigned(str)
    IN IF s = <<"0">> THEN [ok |-> TRUE, value |-> 0]
       ELSE IF s = <<>> THEN [ok |-> FALSE, value |-> 0]
       ELSE LET r == ParseTerms(s)
            IN IF r.ok THEN [ok |-> TRUE,
                             value |-> IF Head(str) = "-" THEN 0 - r.value ELSE r.value]
               ELSE [ok |-> FALSE, value |-> 0]

validatePort(port) == ~(port < 1 \/ port > 65535)

validatePositiveDuration(d) == ~(d <= 0)

ConfigError(msg) == [ok |-> FALSE, err |-> msg, cfg |-> NilConfig]

\* a LoadConfig that lets the environment win over a flag for the database path
LoadConfig_EnvFirst(f, env, wasSet) ==
    LET port == IF "port" \in wasSet THEN [ok |-> TRUE, value |-> f.port]
                ELSE IF env.CHAI_PORT # <<>> THEN Atoi(env.CHAI_PORT)
                ELSE [ok |-> TRUE, value |-> defaultPort]
        dbPath == IF env.CHAI_DB # "" THEN env.CHAI_DB
                  ELSE IF "db" \in wasSet THEN f.dbPath
                  ELSE defaultDBPath
        workDir == IF "workdir" \in wasSet THEN f.workDir
                   ELSE IF env.CHAI_WORKDIR # "" THEN env.CHAI_WORKDIR
                   ELSE defaultWorkDir
        claudeCmd == IF "claude-cmd" \in wasSet THEN f.claudeCmd
                     ELSE IF env.CHAI_CLAUDE_CMD # "" THEN env.CHAI_CLAUDE_CMD
                     ELSE defaultClaudeCmd
        promptTimeout ==
            IF "prompt-timeout" \in wasSet THEN [ok |-> TRUE, value |-> f.promptTimeout]
            ELSE IF env.CHAI_PROMPT_TIMEOUT # <<>> THEN ParseDuration(env.CHAI_PROMPT_TIMEOUT)
            ELSE [ok |-> TRUE, value |-> defaultPromptTimeout]
        shutdownTimeout ==
            IF "shutdown-timeout" \in wasSet THEN [ok |-> TRUE, value |-> f.shutdownTimeout]
            ELSE IF env.CHAI_SHUTDOWN_TIMEOUT # <<>> THEN ParseDuration(env.CHAI_SHUTDOWN_TIMEOUT)
            ELSE [ok |-> TRUE, value |-> defaultShutdownTimeout]
    IN IF ~port.ok THEN ConfigError("invalid CHAI_PORT value")
       ELSE IF ~validatePort(port.value) THEN ConfigError("invalid port")
       ELSE IF ~promptTimeout.ok THEN ConfigError("invalid CHAI_PROMPT_TIMEOUT value")
       ELSE IF ~validatePositiveDuration(promptTimeout.value)
            THEN ConfigError("invalid CHAI_PROMPT_TIMEOUT: must be positive")
       ELSE IF ~shutdownTimeout.ok THEN ConfigError("invalid CHAI_SHUTDOWN_TIMEOUT value")
       ELSE IF ~validatePositiveDuration(shutdownTimeout.value)
            THEN ConfigError("invalid CHAI_SHUTDOWN_TIMEOUT: must be positive")
       ELSE [ok |-> TRUE, err |-> "",
             cfg |-> [Port |-> port.value, DBPath |-> dbPath, WorkDir |-> workDir,
                      ClaudeCmd |-> claudeCmd, PromptTimeout |-> promptTimeout.value,
                      ShutdownTimeout |-> shutdownTimeout.value]]

\* loadConfigWithChecker: the options in the order of the code, each error
\* returning at once with a nil configuration
LoadConfig(f, env, wasSet) ==
    LET port == IF "port" \in wasSet THEN [ok |-> TRUE, value |-> f.port]
                ELSE IF env.CHAI_PORT # <<>> THEN Atoi(env.CHAI_PORT)
                ELSE [ok |-> TRUE, value |-> defaultPort]
        dbPath == IF "db" \in wasSet THEN f.dbPath
                  ELSE IF env.CHAI_DB # "" THEN env.CHAI_DB
                  ELSE defaultDBPath
        workDir == IF "workdir" \in wasSet THEN f.workDir
                   ELSE IF env.CHAI_WORKDIR # "" THEN env.CHAI_WORKDIR
                   ELSE defaultWorkDir
        claudeCmd == IF "claude-cmd" \in wasSet THEN f.claudeCmd
                     ELSE IF env.CHAI_CLAUDE_CMD # "" THEN env.CHAI_CLAUDE_CMD
                     ELSE defaultClaudeCmd
        promptTimeout ==
            IF "prompt-timeout" \in wasSet THEN [ok |-> TRUE, value |-> f.promptTimeout]
            ELSE IF env.CHAI_PROMPT_TIMEOUT # <<>> THEN ParseDuration(env.CHAI_PROMPT_TIMEOUT)
            ELSE [ok |-> TRUE, value |-> defaultPromptTimeout]
        shutdownTimeout ==
            IF "shutdown-timeout" \in wasSet THEN [ok |-> TRUE, value |-> f.shutdownTimeout]
            ELSE IF env.CHAI_SHUTDOWN_TIMEOUT # <<>> THEN ParseDuration(env.CHAI_SHUTDOWN_TIMEOUT)
            ELSE [ok |-> TRUE, value |-> defaultShutdownTimeout]
    IN IF ~port.ok THEN ConfigError("invalid CHAI_PORT value")
       ELSE IF ~validatePort(port.value) THEN ConfigError("invalid port")
       ELSE IF ~promptTimeout.ok THEN ConfigError("invalid CHAI_PROMPT_TIMEOUT value")
       ELSE IF ~validatePositiveDuration(promptTimeout.value)
            THEN ConfigError("invalid CHAI_PROMPT_TIMEOUT: must be positive")
       ELSE IF ~shutdownTimeout.ok THEN ConfigError("invalid CHAI_SHUTDOWN_TIMEOUT value")
       ELSE IF ~validatePositiveDuration(shutdownTimeout.value)
            THEN ConfigError("invalid CHAI_SHUTDOWN_TIMEOUT: must be positive")
       ELSE [ok |-> TRUE, err |-> "",
             cfg |-> [Port |-> port.value, DBPath |-> dbPath, WorkDir |-> workDir,
                      ClaudeCmd |-> claudeCmd, PromptTimeout |-> promptTimeout.value,
                      ShutdownTimeout |-> shutdownTimeout.value]]

\* --------------------------------------------------- reads, continued
\* limit := 100
DefaultLimit == 100

\* if limit > 1000 { limit = 1000 }
MaxLimit == 1000

\* a limit clamped from one side only
QueryLimit_NoUpperClamp(param) ==
    LET parsed == IF param # <<>> /\ Atoi(param).ok THEN Atoi(param).value ELSE DefaultLimit
    IN IF parsed < 1 THEN 1 ELSE parsed

\* the limit of GetEvents from the query parameter "limit"
QueryLimit(param) ==
    LET parsed == IF param # <<>> /\ Atoi(param).ok THEN Atoi(param).value ELSE DefaultLimit
        raised == IF parsed < 1 THEN 1 ELSE parsed
    IN IF raised > MaxLimit THEN MaxLimit ELSE raised

\* sinceSeq, _ := strconv.ParseInt(...): 0 when the parameter does not parse
QuerySince(param) == IF Atoi(param).ok THEN Atoi(param).value ELSE 0

\* the position of a prompt id of the session in the order of prompt_id
PromptRank(sessionID, promptID) ==
    CHOOSE k \in 1..MaxClaims : FormatPromptID(sessionID, k) = promptID

\* ORDER BY sequence ASC with a prompt id, ORDER BY prompt_id, sequence ASC without
RowBefore(a, b, byPrompt) ==
    IF byPrompt /\ a.prompt_id # b.prompt_id
    THEN PromptRank(a.session_id, a.prompt_id) < PromptRank(b.session_id, b.prompt_id)
    ELSE a.sequence < b.sequence

RECURSIVE OrderRows(_, _)
OrderRows(rows, byPrompt) ==
    IF rows = {} THEN <<>>
    ELSE LET first == CHOOSE a \in rows : \A b \in rows \ {a} : RowBefore(a, b, byPrompt)
         IN <<first>> \o OrderRows(rows \ {first}, byPrompt)

\* LIMIT ?: a negative limit is no limit
SqlLimit(rows, limit) ==
    IF limit < 0 \/ limit >= Len(rows) THEN rows ELSE SubSeq(rows, 1, limit)

\* rows that keep the first one off the page
SinceRows_Inclusive(ev, sessionID, sinceSequence, promptID) ==
    {e \in ev : /\ e.session_id = sessionID
                /\ promptID # "" => e.prompt_id = promptID
                /\ e.sequence > sinceSequence + 1}

\* WHERE session_id = ? [AND prompt_id = ?] AND sequence > ?
SinceRows(ev, sessionID, sinceSequence, promptID) ==
    {e \in ev : /\ e.session_id = sessionID
                /\ promptID # "" => e.prompt_id = promptID
                /\ e.sequence > sinceSequence}

GetEventsSince(ev, sessionID, sinceSequence, promptID, limit) ==
    SqlLimit(OrderRows(SinceRows(ev, sessionID, sinceSequence, promptID), promptID = ""), limit)

\* SELECT ... FROM messages WHERE session_id = ?
GetSessionMessages(msgs, sessionID) == SelectSeq(msgs, LAMBDA m : m.session_id = sessionID)

ErrNoRows == "sql: no rows in result set"

\* the result of a call: its arguments, the rows and values returned
NoCall ==
    [op |-> "", id |-> "", query |-> <<>>, since |-> 0, promptID |-> "", limit |-> 0,
     cutoff |-> 0, affected |-> 0, rows |-> <<>>, found |-> FALSE, err |-> "", code |-> 0, hasMore |-> FALSE, lastSeq |-> 0, status |-> "",
     input |-> NoInput, config |-> NilConfig]

QueryLimits == {1, 2, 3}

QuerySinces == 0..3

LimitParams == {<<>>, <<"x">>, <<"0">>, <<"-", "1">>, <<"2">>, <<"1", "0">>,
                <<"2", "0", "0", "0">>}

SinceParams == {<<>>, <<"2">>}

readVars == <<dbVars, cmVars, h, del, approvals, faults, repoGhost, cmGhost>>

\* a caller makes its next call after it has taken the result of the last one
Returned == resp = NoCall

TakeResult ==
    /\ resp # NoCall
    /\ resp' = NoCall
    /\ UNCHANGED readVars

RepoGetEventsSince(id, sinceSequence, promptID, limit) ==
    /\ Returned
    /\ resp' = [NoCall EXCEPT !.op = "GetEventsSince", !.id = id, !.since = sinceSequence,
                              !.promptID = promptID, !.limit = limit,
                              !.rows = GetEventsSince(events, id, sinceSequence, promptID, limit)]
    /\ UNCHANGED readVars

RepoGetSessionMessages(id) ==
    /\ Returned
    /\ resp' = [NoCall EXCEPT !.op = "GetSessionMessages", !.id = id,
                              !.rows = GetSessionMessages(messages, id)]
    /\ UNCHANGED readVars

\* row.Scan of a missing row returns sql.ErrNoRows
RepoGetSession(id) ==
    /\ Returned
    /\ resp' = [NoCall EXCEPT !.op = "GetSession", !.id = id,
                              !.found = id \in DOMAIN sessions,
                              !.err = IF id \in DOMAIN sessions THEN "" ELSE ErrNoRows,
                              !.status = IF id \in DOMAIN sessions
                                         THEN sessions[id].stream_status ELSE ""]
    /\ UNCHANGED readVars

\* DeleteSession with its result: rows > 0
RepoDeleteSessionResult(id) ==
    /\ Returned
    /\ sessions' = DeleteSessionRows(sessions, id)
    /\ messages' = DeleteSessionMessages(messages, id)
    /\ events' = DeleteSessionEvents(events, id)
    /\ resp' = [NoCall EXCEPT !.op = "DeleteSession", !.id = id,
                              !.found = id \in DOMAIN sessions]
    /\ UNCHANGED <<nextSession, now, cmVars, h, del, approvals, faults, repoGhost, cmGhost>>

RepoCreateMessage(id) ==
    /\ Len(messages) < MaxMessages
    /\ CreateMessageOk(sessions, id, TRUE)
    /\ messages' = CreateMessage(messages, sessions, id, "user", <<"h", "i">>, 0, TRUE)
    /\ UNCHANGED <<sessions, nextSession, now, events, cmVars, handlerVars, repoGhost, cmGhost>>

\* the page of Handlers.GetEvents: limit + 1 rows fetched, the page cut to limit
GetEventsPage(ev, id, sinceSeq, promptID, limit) ==
    LET fetched == GetEventsSince(ev, id, sinceSeq, promptID, limit + 1)
        hasMore == Len(fetched) > limit
        page == IF hasMore THEN SubSeq(fetched, 1, limit) ELSE fetched
    IN [rows |-> page, hasMore |-> hasMore,
        lastSeq |-> IF page # <<>> THEN page[Len(page)].sequence ELSE 0]

\* Handlers.GetEvents
HandleGetEvents(id, sinceParam, promptID, limitParam) ==
    /\ Returned
    /\ resp' =
         IF id \notin DOMAIN sessions
         THEN [NoCall EXCEPT !.op = "GetEvents", !.id = id, !.code = 404]
         ELSE LET limit == QueryLimit(limitParam)
                  p == GetEventsPage(events, id, QuerySince(sinceParam), promptID, limit)
              IN [NoCall EXCEPT !.op = "GetEvents", !.id = id, !.code = 200,
                                !.query = <<sinceParam, limitParam>>,
                                !.since = QuerySince(sinceParam), !.promptID = promptID,
                                !.limit = limit, !.rows = p.rows, !.hasMore = p.hasMore,
                                !.lastSeq = p.lastSeq,
                                !.status = sessions[id].stream_status]
    /\ UNCHANGED readVars

\* ------------------------------- Repository.DeleteEventsForCompletedSessions
\* a purge that does not look at the stream status
PurgeStatuses_All == {StreamStatusCompleted, StreamStatusIdle, StreamStatusStreaming}

\* WHERE stream_status = ? OR stream_status = ?
PurgeStatuses == {StreamStatusCompleted, StreamStatusIdle}

\* session_id IN (SELECT id FROM sessions WHERE ...) AND created_at < ?
PurgeRows(ev, sess, cutoff) ==
    {e \in ev : /\ e.session_id \in DOMAIN sess
                /\ sess[e.session_id].stream_status \in PurgeStatuses
                /\ e.created_at < Unix(cutoff)}

DeleteEventsForCompletedSessions(ev, sess, cutoff) == ev \ PurgeRows(ev, sess, cutoff)

\* cutoff := time.Now().Add(-olderThan), one DELETE statement, RowsAffected
RepoPurge(olderThan) ==
    /\ olderThan <= now
    /\ events' = DeleteEventsForCompletedSessions(events, sessions, now - olderThan)
    /\ resp' = [NoCall EXCEPT !.op = "Purge", !.cutoff = now - olderThan,
                              !.affected = Cardinality(PurgeRows(events, sessions, now - olderThan))]
    /\ UNCHANGED <<sessions, nextSession, now, messages, cmVars, h, del, approvals, faults,
                   repoGhost, cmGhost>>

\* time passes
Tick ==
    /\ now < MaxTime
    /\ now' = now + 1
    /\ UNCHANGED <<sessions, nextSession, messages, events, cmVars, handlerVars, repoGhost,
                   cmGhost>>

\* ------------------------------------------------------------------- Next
Next ==
    \/ HandleCreateSession
    \/ \E r \in Requests, id \in SessionIds, body \in PromptBodies : PromptGetSession(r, id, body)
    \/ \E r \in Requests : PromptStartNewPrompt(r)
    \/ \E r \in Requests, storeOk \in BOOLEAN : PromptSaveUser(r, storeOk)
    \/ \E r \in Requests, storeOk \in BOOLEAN : PromptConnected(r, storeOk)
    \/ \E r \in Requests, spawnOk \in BOOLEAN : RunPromptStart(r, spawnOk)
    \/ \E r \in Requests : RunPromptWrite(r)
    \/ \E r \in Requests, storeOk \in BOOLEAN :
          \E line \in StdoutLines(h[r].pid) : RunPromptScanLine(r, line, storeOk)
    \/ \E r \in Requests : RunPromptScanEOF(r)
    \/ \E r \in Requests : RunPromptScanErr(r)
    \/ \E r \in Requests : RunPromptWait(r)
    \/ \E r \in Requests, storeOk \in BOOLEAN : PromptAfterRun(r, storeOk)
    \/ \E r \in Requests, storeOk \in BOOLEAN : PromptFinal(r, storeOk)
    \/ \E r \in Requests : PromptRelease(r)
    \/ \E r \in Requests : ClientDisconnect(r)
    \/ \E r \in Requests : Timeout(r)
    \/ \E pid \in 1..Len(procs) : CtxKill(pid)
    \/ \E pid \in 1..Len(procs), exit \in {"ok", "failed"} : ProcExit(pid, exit)

\* the prompt traffic together with DeleteSession requests
NextDelete ==
    \/ Next
    \/ \E id \in SessionIds : HandleDeleteKill(id)
    \/ \E id \in SessionIds : HandleDeleteRow(id)

\* the prompt traffic together with Approve requests
NextApprove ==
    \/ Next
    \/ \E id \in SessionIds, body \in ApproveBodies :
          Len(approvals) < MaxApprovals /\ Approve(id, body)

\* goroutines storing permission requests, subprocesses coming and going,
\* and Approve requests
NextPerm ==
    \/ \E s \in SessionIds, inp \in ToolInputs \cup {Nil} : CMStoreLock(1, s, "req-1", inp)
    \/ CMStoreWrite(1)
    \/ \E id \in SessionIds : CMRegister(id)
    \/ \E pid \in 1..Len(procs) : CMUnregister(pid)
    \/ \E pid \in 1..Len(procs) : ProcExit(pid, "failed")
    \/ \E id \in SessionIds, body \in ApproveBodies :
          Len(approvals) < MaxAnswers /\ Approve(id, body)

\* claims, releases, appends and deletes by any caller, with the purge
NextPurge ==
    \/ nextSession < MaxCreates /\ RepoCreateSession
    \/ \E id \in SessionIds : RepoDeleteSession(id)
    \/ \E id \in SessionIds : RepoStartNewPrompt(id)
    \/ \E id \in SessionIds, status \in {StreamStatusIdle, StreamStatusCompleted} :
            RepoUpdateSessionStreamStatus(id, status)
    \/ \E id \in SessionIds : \E p \in PromptIds(id) :
            Cardinality(events) < MaxPurgeEvents /\ RepoCreateEvent(id, p)
    \/ Tick
    \/ Returned /\ \E olderThan \in 0..MaxTime : RepoPurge(olderThan)
    \/ TakeResult

\* KillProcess by any goroutine: the sweep under the lock, then
\* proc.cmd.Process.Kill() when a process is tracked; the process table is
\* not written
ErrProcessDone == "os: process already finished"

CMKillProcess(id) ==
    /\ MuFree(mu)
    /\ pendingRequests' = KillProcessPending(pendingRequests, id)
    /\ procs' = KillProcessProcs(procs, processes, id)
    /\ stored' = [rid \in RequestIds |->
                    IF rid \in DOMAIN pendingRequests /\ pendingRequests[rid].SessionID = id
                    THEN <<>> ELSE stored[rid]]
    /\ resp' = [NoCall EXCEPT !.op = "KillProcess", !.id = id,
                              !.found = id \in DOMAIN processes,
                              !.err = IF id \in DOMAIN processes /\ ~procs[processes[id]].alive
                                      THEN ErrProcessDone ELSE ""]
    /\ UNCHANGED <<dbVars, processes, mu, h, del, approvals, faults, repoGhost, g, takeLog>>

\* command lines and environments of the server
PortFlags == {9000, 0}

PortEnvs == {<<>>, <<"7", "0", "0", "0">>, <<"a">>, <<"7", "0", "0", "0", "0">>}

PathFlags == {"/flag"}

PathEnvs == {"", "/env"}

DurationFlags == {Minute, 0}

DurationEnvs == {<<>>, <<"1", "m", "3", "0", "s">>, <<"x">>, <<"0", "s">>}

\* the flags after flag.Parse(): a flag that was not given holds its default
ParsedFlags(wasSet) ==
    {f \in [port : PortFlags \cup {defaultPort},
            dbPath : PathFlags \cup {defaultDBPath},
            workDir : PathFlags \cup {defaultWorkDir},
            claudeCmd : PathFlags \cup {defaultClaudeCmd},
            promptTimeout : DurationFlags \cup {defaultPromptTimeout},
            shutdownTimeout : DurationFlags \cup {defaultShutdownTimeout}] :
        /\ f.port = defaultPort <=> "port" \notin wasSet
        /\ f.dbPath = defaultDBPath <=> "db" \notin wasSet
        /\ f.workDir = defaultWorkDir <=> "workdir" \notin wasSet
        /\ f.claudeCmd = defaultClaudeCmd <=> "claude-cmd" \notin wasSet
        /\ f.promptTimeout = defaultPromptTimeout <=> "prompt-timeout" \notin wasSet
        /\ f.shutdownTimeout = defaultShutdownTimeout <=> "shutdown-timeout" \notin wasSet}

Environments ==
    [CHAI_PORT : PortEnvs, CHAI_DB : PathEnvs, CHAI_WORKDIR : PathEnvs,
     CHAI_CLAUDE_CMD : PathEnvs, CHAI_PROMPT_TIMEOUT : DurationEnvs,
     CHAI_SHUTDOWN_TIMEOUT : DurationEnvs]

\* main: cfg, err := internal.LoadConfig(f, nil), once at startup
MainLoadConfig(f, env, wasSet) ==
    /\ resp = NoCall
    /\ LET r == LoadConfig(f, env, wasSet)
       IN resp' = [NoCall EXCEPT !.op = "LoadConfig",
                                 !.input = [f |-> f, env |-> env, wasSet |-> wasSet],
                                 !.found = r.ok, !.err = r.err, !.config = r.cfg]
    /\ UNCHANGED <<dbVars, cmVars, h, del, approvals, faults, repoGhost, cmGhost>>

NextConfig ==
    /\ resp = NoCall
    /\ \E wasSet \in SUBSET Options : \E f \in ParsedFlags(wasSet) : \E env \in Environments :
           MainLoadConfig(f, env, wasSet)

\* permission requests stored, subprocesses coming and going, KillProcess
NextKill ==
    \/ \E s \in SessionIds, rid \in RequestIds : CMStoreLock(1, s, rid, "in1")
    \/ CMStoreWrite(1)
    \/ \E id \in SessionIds : CMRegister(id)
    \/ \E pid \in 1..Len(procs) : CMUnregister(pid)
    \/ \E pid \in 1..Len(procs) : ProcExit(pid, "failed")
    \/ \E id \in SessionIds : CMKillProcess(id)

\* permission requests stored only for a session whose subprocess is tracked,
\* subprocesses coming and going, KillProcess
NextOutlive ==
    \/ \E s \in DOMAIN processes, rid \in RequestIds, inp \in ToolInputs :
          CMStoreLock(1, s, rid, inp)
    \/ CMStoreWrite(1)
    \/ \E id \in SessionIds : CMRegister(id)
    \/ \E pid \in 1..Len(procs) : CMUnregister(pid)
    \/ \E pid \in 1..Len(procs) : ProcExit(pid, "failed")
    \/ \E id \in SessionIds : CMKillProcess(id)

\* a column that was never written
SqlNull == "NULL"

\* Repository.migrate on an existing database: the tables and columns exist,
\* the backfill touches only rows WHERE stream_status IS NULL
migrate(sess) ==
    [id \in DOMAIN sess |->
        IF sess[id].stream_status = SqlNull
        THEN [sess[id] EXCEPT !.stream_status = StreamStatusIdle, !.prompt_sequence = 0]
        ELSE sess[id]]

\* the server process stops and main starts again: NewRepository on the
\* database file of the previous process
RepoRestart ==
    /\ sessions' = migrate(sessions)
    /\ window' = [id \in SessionIds |-> <<>>]
    /\ resp' = [NoCall EXCEPT !.op = "Restart"]
    /\ UNCHANGED <<nextSession, now, messages, events, cmVars, h, del, approvals, faults,
                   granted, assigned, cmGhost>>

\* claims, releases, appends and deletes by any caller, and restarts
NextRestart ==
    \/ NextRepo
    \/ Returned /\ RepoRestart
    \/ TakeResult

\* ------------------------------------------------ the iOS client
\* ChatViewModel at the start of sendMessage: isStreaming = true, no prompt id,
\* lastSequence = 0; applied is the list of claude events handed to
\* handleClaudeEvent
ClientStart == [currentPromptId |-> "", lastSequence |-> 0, isStreaming |-> TRUE, applied |-> <<>>]

finalizeStreaming(c) == [c EXCEPT !.isStreaming = FALSE, !.currentPromptId = ""]

handleSSEFrame(c, frame) ==
    CASE frame.event = "connected" ->
             [c EXCEPT !.currentPromptId = frame.data[4], !.lastSequence = 0]
      [] frame.event = "claude" ->
             [c EXCEPT !.applied = Append(@, frame.data), !.lastSequence = @ + 1]
      [] frame.event = "done" -> finalizeStreaming(c)
      [] OTHER -> c

\* for try await frame in stream { handleSSEFrame(frame) }
RECURSIVE HandleFrames(_, _)
HandleFrames(c, frames) ==
    IF frames = <<>> THEN c
    ELSE HandleFrames(handleSSEFrame(c, Head(frames)), Tail(frames))

processPersistedEvent(c, event) ==
    CASE event.event_type = "claude" -> [c EXCEPT !.applied = Append(@, event.data)]
      [] event.event_type = "done" -> finalizeStreaming(c)
      [] OTHER -> c

RECURSIVE ProcessPersisted(_, _)
ProcessPersisted(c, rows) ==
    IF rows = <<>> THEN c
    ELSE ProcessPersisted(processPersistedEvent(c, Head(rows)), Tail(rows))

\* the loop of handleAppBecameActive for the prompt id it started with:
\* GetEvents with limit=100 since lastSequence until has_more is false or the
\* session is no longer streaming
RECURSIVE CatchUp(_, _, _, _, _)
CatchUp(c, promptId, ev, sess, id) ==
    LET response == GetEventsPage(ev, id, c.lastSequence, promptId, QueryLimit(<<"1", "0", "0">>))
        c2 == [ProcessPersisted(c, response.rows) EXCEPT !.lastSequence = response.lastSeq]
    IN IF sess[id].stream_status # StreamStatusStreaming THEN finalizeStreaming(c2)
       ELSE IF response.hasMore THEN CatchUp(c2, promptId, ev, sess, id)
       ELSE c2

\* guard let promptId = currentPromptId, isStreaming else { return }
handleAppBecameActive(c, ev, sess, id) ==
    IF c.currentPromptId # "" /\ c.isStreaming
    THEN CatchUp(c, c.currentPromptId, ev, sess, id)
    ELSE c

\* any caller writing to and reading from the store
NextEvents ==
    \/ RepoCreateSession
    \/ \E id \in SessionIds : \E p \in PromptIds(id) : RepoCreateEvent(id, p)
    \/ \E id \in SessionIds : RepoCreateMessage(id)
    \/ \E id \in SessionIds : RepoDeleteSessionResult(id)
    \/ \E id \in SessionIds, k \in QuerySinces, limit \in QueryLimits :
          \E p \in PromptIds(id) \cup {""} : RepoGetEventsSince(id, k, p, limit)
    \/ \E id \in SessionIds : RepoGetSessionMessages(id)
    \/ \E id \in SessionIds : RepoGetSession(id)
    \/ \E id \in SessionIds, sinceParam \in SinceParams, limitParam \in LimitParams :
          \E p \in PromptIds(id) \cup {""} : HandleGetEvents(id, sinceParam, p, limitParam)
    \/ TakeResult

\* the prompt traffic with handlers that may panic
NextPanic ==
    \/ Next
    \/ \E r \in Requests : Panic(r)

\* ================================================================== Init

\* the state after start-up, the fault budget of the store aside
InitServer ==
    /\ sessions = <<>>
    /\ nextSession = 0
    /\ messages = <<>>
    /\ events = {}
    /\ processes = <<>>
    /\ pendingRequests = <<>>
    /\ mu = 0
    /\ procs = <<>>
    /\ h = [r \in Requests |-> IdleFrame]
    /\ del = [s \in SessionIds |-> "none"]
    /\ approvals = <<>>
    /\ resp = NoCall
    /\ now = 0
    /\ window = [s \in SessionIds |-> <<>>]
    /\ granted = [s \in SessionIds |-> <<>>]
    /\ assigned = [k \in PromptKeys |-> <<>>]
    /\ g = [c \in Callers |-> IdleCaller]
    /\ stored = [rid \in RequestIds |-> <<>>]
    /\ takeLog = [rid \in RequestIds |-> <<>>]

Init == InitServer /\ faults = 0

\* a server whose store never fails on its own: the fault budget is spent
InitStoreUp == InitServer /\ faults = MaxFaults

SpecRepo == Init /\ [][NextRepo]_vars

SpecCM == Init /\ [][NextCM]_vars

Spec == Init /\ [][Next]_vars

SpecDelete == Init /\ [][NextDelete]_vars

SpecApprove == InitStoreUp /\ [][NextApprove]_vars

SpecPanic == Init /\ [][NextPanic]_vars

SpecEvents == Init /\ [][NextEvents]_vars

SpecPerm == Init /\ [][NextPerm]_vars

SpecPurge == Init /\ [][NextPurge]_vars

SpecKill == Init /\ [][NextKill]_vars

SpecRestart == Init /\ [][NextRestart]_vars

SpecOutlive == Init /\ [][NextOutlive]_vars

SpecConfig == Init /\ [][NextConfig]_vars

\* the steps a handler goroutine takes by itself: the scheduler runs a goroutine
\* that can run; reading a stdout line is not among them, it waits for the subprocess
HandlerStep(r) ==
    \/ PromptStartNewPrompt(r)
    \/ \E storeOk \in BOOLEAN : PromptSaveUser(r, storeOk)
    \/ \E storeOk \in BOOLEAN : PromptConnected(r, storeOk)
    \/ \E spawnOk \in BOOLEAN : RunPromptStart(r, spawnOk)
    \/ RunPromptWrite(r)
    \/ RunPromptScanEOF(r)
    \/ RunPromptWait(r)
    \/ \E storeOk \in BOOLEAN : PromptAfterRun(r, storeOk)
    \/ \E storeOk \in BOOLEAN : PromptFinal(r, storeOk)
    \/ PromptRelease(r)

\* handler goroutines and the context watcher of exec.CommandContext keep running;
\* nothing makes a client send, a subprocess write or a subprocess exit
FairSpec ==
    /\ Spec
    /\ \A r \in Requests : WF_vars(HandlerStep(r))
    /\ \A pid \in Requests : WF_vars(CtxKill(pid))


\* ================================================================ claims
IsPromptId(x) == x \notin {ErrSessionBusy, ErrSessionNotFound, ""}

\* C1: on an existing session, of the StartNewPrompt calls made since the last
\* release (or since the session was created) the first returns a prompt id and
\* every further one returns ErrSessionBusy: two calls with no release in
\* between give exactly one prompt id and one ErrSessionBusy.
C1_OneClaimPerRelease ==
    \A s \in DOMAIN sessions :
        \A k \in 1..Len(window[s]) :
            IF k = 1 THEN IsPromptId(window[s][k]) ELSE window[s][k] = ErrSessionBusy

C1_Witness ==
    \E s \in DOMAIN sessions :
        /\ Len(window[s]) = 2
        /\ Len(granted[s]) = 2
        /\ window[s][1] = granted[s][2]
        /\ window[s][2] = ErrSessionBusy

C3_ReleasedOnEveryExit ==
    \A r \in Requests :
        (h[r].pc = "done" /\ h[r].promptID # "") => h[r].released # ""

\* C4: the sequence numbers CreateEvent returned for one (session, prompt) are
\* 1, 2, ..., N in call order, whatever calls for other prompts and sessions
\* were made in between.
C4_SequencesInCallOrder ==
    \A key \in PromptKeys :
        \A k \in 1..Len(assigned[key]) : assigned[key][k] = k

C4_Witness ==
    \E k1, k2 \in PromptKeys :
        /\ k1 # k2
        /\ k1[1] = k2[1]
        /\ Len(assigned[k1]) = 2
        /\ Len(assigned[k2]) = 2
        /\ \E e \in events : e.session_id # k1[1]

\* C5: of the GetPendingRequest calls made for a request id since its last
\* store, only the first obtains an entry, and it is the entry stored; every
\* later call, and every call for an id never stored, returns nil; after a call
\* the id is no longer in the table.
C5_TakeExactlyOnce ==
    \A rid \in RequestIds :
        /\ \A k \in 1..Len(takeLog[rid]) :
              IF k = 1 THEN takeLog[rid][k] = stored[rid] ELSE takeLog[rid][k] = <<>>
        /\ Len(takeLog[rid]) > 0 => rid \notin DOMAIN pendingRequests

C5_Witness ==
    \E rid \in RequestIds :
        /\ Len(takeLog[rid]) = 2
        /\ takeLog[rid][1] # <<>>
        /\ takeLog[rid][1][1].ToolInput = "in2"
        /\ takeLog[rid][2] = <<>>

\* the subprocesses started for a session that are alive
LiveProcs(id) == {pid \in 1..Len(procs) : procs[pid].session = id /\ procs[pid].alive}

\* the event a prompt persisted as its terminal event
TerminalEventStored(fr) ==
    \E e \in events :
        /\ e.session_id = fr.id
        /\ e.prompt_id = fr.promptID
        /\ e.event_type = FinalEvent(fr.runErr)
        /\ e.data = FinalData(fr.runErr)

\* the last frame the client received is the terminal frame of the prompt
TerminalFrameLast(fr) ==
    /\ fr.frames # <<>>
    /\ fr.frames[Len(fr.frames)] = [event |-> FinalEvent(fr.runErr), data |-> FinalData(fr.runErr)]

\* C6: once the handler of a prompt that went through RunPrompt has returned:
\* if RunPrompt returned no error the session was released to completed and
\* the terminal event is done; if it returned an error the session was
\* released to idle and the terminal event is error; the terminal event is
\* the last frame of a client that is still connected and is in the event
\* log unless the store itself failed.
C6_ReleaseMatchesRunPrompt ==
    \A r \in Requests :
        (h[r].pc = "done" /\ h[r].ran) =>
            /\ h[r].runErr = "" => (h[r].released = StreamStatusCompleted /\ h[r].final = "done")
            /\ h[r].runErr # "" => (h[r].released = StreamStatusIdle /\ h[r].final = "error")
            /\ ~h[r].clientGone => TerminalFrameLast(h[r])
            /\ faults = 0 => TerminalEventStored(h[r])

C6_Witness ==
    \E r \in Requests, q \in Requests :
        /\ h[r].pc = "done" /\ h[r].ran /\ h[r].runErr = "wait"
        /\ h[r].released = StreamStatusIdle /\ TerminalEventStored(h[r])
        /\ h[q].pc = "done" /\ h[q].ran /\ h[q].runErr = ""
        /\ h[q].released = StreamStatusCompleted /\ TerminalFrameLast(h[q])

HeldLiveProcs(id) == {pid \in LiveProcs(id) : procs[pid].owner \in Holders(id)}

C9_OneLiveProcPerSession ==
    \A s \in SessionIds : Cardinality(LiveProcs(s)) <= 1

\* C10: the k-th successful StartNewPrompt on a session returns
\* "<sessionId>-k", and prompt_sequence always equals the number of prompts
\* granted so far: it starts at 0, rises by one per accepted claim and is
\* changed by nothing else.
C10_PromptIdsCountUp ==
    \A s \in SessionIds :
        /\ \A k \in 1..Len(granted[s]) : granted[s][k] = s \o "-" \o ToString(k)
        /\ s \in DOMAIN sessions => sessions[s].prompt_sequence = Len(granted[s])

C10_Witness ==
    \E s \in DOMAIN sessions :
        /\ Len(granted[s]) = 2
        /\ Len(window[s]) = 2
        /\ window[s][2] = ErrSessionBusy
        /\ sessions[s].prompt_sequence = 2

\* C11: a Prompt request answered 409 has done nothing else: the step that
\* rejects it changes no session row (prompt_sequence and stream_status
\* included), message, event, process-table entry or subprocess, and the
\* rejected request never gets a prompt id, a frame or a subprocess.
C11_BusyDoesNothingElse ==
    /\ [][\A r \in Requests :
            (h[r].pc = "claim" /\ h'[r].pc = "done" /\ h'[r].code = 409)
            => UNCHANGED <<sessions, nextSession, now, messages, events, processes,
                           pendingRequests, procs>>]_vars
    /\ [](\A r \in Requests :
            (h[r].pc = "done" /\ h[r].code = 409)
            => /\ h[r].promptID = "" /\ h[r].frames = <<>>
               /\ ~h[r].ran /\ h[r].pid = 0 /\ h[r].released = "")

C11_Witness ==
    \E r \in Requests :
        /\ h[r].pc = "done" /\ h[r].code = 409
        /\ sessions[h[r].id].stream_status = StreamStatusStreaming
        /\ sessions[h[r].id].prompt_sequence = 1
        /\ Len(messages) = 1
        /\ Len(procs) = 1

\* a prompt body the handler must reject: not JSON, or a prompt of spaces only
BadPromptBody(body) ==
    ~body.json \/ \A i \in 1..Len(body.prompt) : body.prompt[i] = " "

\* an Approve body the handler must reject
BadApproveBody(body) ==
    ~body.json \/ body.tool_use_id = "" \/ body.decision \notin {"allow", "deny"}

\* C12: a Prompt request with malformed JSON or an empty or whitespace-only
\* prompt, and an Approve request with malformed JSON, no tool_use_id or a
\* decision other than allow and deny, is answered 400 in a step that changes
\* no session row, message, event, process-table entry, pending entry or
\* subprocess (nothing is written to a stdin).
C12_ValidationMutatesNothing ==
    [][/\ \A r \in Requests :
            h'[r] # h[r] => \A id \in SessionIds, body \in PromptBodies :
            (BadPromptBody(body) /\ PromptGetSession(r, id, body))
            => /\ h'[r].pc = "done" /\ h'[r].code = 400
               /\ UNCHANGED <<dbVars, cmVars>>
       /\ approvals' # approvals => \A id \in SessionIds, body \in ApproveBodies :
            (BadApproveBody(body) /\ Approve(id, body))
            => /\ approvals'[Len(approvals')].code = 400
               /\ UNCHANGED <<dbVars, cmVars, h>>]_vars

C12_Witness ==
    /\ \E r \in Requests : h[r].pc = "done" /\ h[r].code = 400
    /\ \E q \in Requests : InRunPrompt(h[q]) /\ ProcAlive(h[q].pid)
                              /\ procs[h[q].pid].stdin = <<UserMessage(h[q].prompt)>>
    /\ Len(approvals) = 1
    /\ approvals[1].code = 400


\* a prompt that went through RunPrompt without an error, whose handler has
\* returned and whose client stayed connected
CompletedNormally(fr) ==
    /\ fr.pc = "done" /\ fr.ran /\ fr.runErr = ""
    /\ ~fr.clientGone

\* C13: the frames of an accepted prompt that completes normally are one
\* connected frame with the session id and the prompt id, then only claude
\* frames, then exactly one done frame, which is the last frame.
C13_FramesConnectedClaudeDone ==
    \A r \in Requests : CompletedNormally(h[r]) =>
        LET f == h[r].frames
        IN /\ Len(f) >= 2
           /\ f[1] = [event |-> "connected", data |-> ConnectedData(h[r].id, h[r].promptID)]
           /\ f[Len(f)] = [event |-> "done", data |-> DoneData]
           /\ \A i \in 2..(Len(f) - 1) : f[i].event = "claude"


\* request r sends an event in this step: the connected event, the event of
\* one stdout line, or the terminal event
SendsEvent(r) ==
    \/ h[r].pc = "connected" /\ h'[r].pc # "connected"
    \/ h[r].pc = "scan" /\ h'[r].lines = h[r].lines + 1
    \/ h[r].pc = "final" /\ h'[r].pc # "final"

\* where the handler goes after an event whose write succeeded
AfterEvent(fr) ==
    CASE fr.pc = "connected" -> {"start"}
      [] fr.pc = "scan" -> {"scan", "wait"}
      [] fr.pc = "final" -> {"release"}
      [] OTHER -> {}

\* C14: when CreateEvent fails for a connected, claude, error or done event
\* the event log is unchanged, the frame is still written to a connected
\* client, the handler carries on as after a stored event (the error of
\* RunPrompt and the status to release are those of a run without the
\* failure), and every later frame of the prompt is delivered as well.
C14_StoreFailureKeepsStream ==
    /\ [][\A r \in Requests : (SendsEvent(r) /\ events' = events /\ ~h[r].clientGone)
           => /\ Len(h'[r].frames) = Len(h[r].frames) + 1
              /\ h'[r].frames[Len(h'[r].frames)].event \in {"connected", "claude", "error", "done"}
              /\ h'[r].pc \in AfterEvent(h[r])
              /\ h'[r].runErr = h[r].runErr
              /\ h'[r].pc = "release" => h'[r].relVal = FinalStatus(h[r].runErr)]_vars
    /\ [](\A r \in Requests : (h[r].pc = "done" /\ h[r].ran /\ ~h[r].clientGone)
           => /\ Len(h[r].frames) = h[r].lines + 2
              /\ h[r].released = FinalStatus(h[r].runErr))

C14_Witness ==
    \E r \in Requests :
        /\ h[r].pc = "done" /\ h[r].storeFailed /\ ~h[r].clientGone
        /\ h[r].released = StreamStatusCompleted
        /\ Len(h[r].frames) = 3
        /\ h[r].frames[2].event = "claude"
        /\ Cardinality(PromptEvents(events, h[r].id, h[r].promptID)) = 2


\* a call of operation op returns in this step
Returns(op) == resp.op = "" /\ resp'.op = op

\* the stored events of (sessionID, promptID) after sequence k
EventsAfter(sessionID, promptID, k) ==
    {e \in events : e.session_id = sessionID /\ e.prompt_id = promptID /\ e.sequence > k}

\* C15: GetEventsSince(session, k, prompt, limit) with a non-empty prompt
\* returns events of that (session, prompt) with sequence > k only, in
\* ascending sequence order, as many as there are up to limit, and no event
\* left out precedes a returned one; with k = 0 and at most limit stored
\* events it returns all of them.
C15_EventsSinceIsThePage ==
    [][(Returns("GetEventsSince") /\ resp'.promptID # "") =>
        LET rows == resp'.rows
            want == EventsAfter(resp'.id, resp'.promptID, resp'.since)
            all == PromptEvents(events, resp'.id, resp'.promptID)
        IN /\ Len(rows) = IF Cardinality(want) < resp'.limit THEN Cardinality(want)
                          ELSE resp'.limit
           /\ \A i \in 1..Len(rows) : rows[i] \in want
           /\ \A i \in 1..(Len(rows) - 1) : rows[i].sequence < rows[i + 1].sequence
           /\ \A e \in want : (\A i \in 1..Len(rows) : rows[i] # e)
                  => \A i \in 1..Len(rows) : rows[i].sequence < e.sequence
           /\ (resp'.since = 0 /\ Cardinality(all) <= resp'.limit)
                  => Len(rows) = Cardinality(all)]_vars

C15_Witness ==
    /\ resp.op = "GetEventsSince" /\ resp.promptID # ""
    /\ resp.since = 1 /\ resp.limit = 2
    /\ Len(resp.rows) = 2
    /\ resp.rows[1].sequence = 2 /\ resp.rows[2].sequence = 3
    /\ Cardinality(PromptEvents(events, resp.id, resp.promptID)) = 5

\* the limit the documentation of GetEvents gives for each query parameter
DocumentedLimit(param) ==
    CASE param = <<>> -> 100
      [] param = <<"x">> -> 100
      [] param = <<"0">> -> 1
      [] param = <<"-", "1">> -> 1
      [] param = <<"2">> -> 2
      [] param = <<"1", "0">> -> 10
      [] param = <<"2", "0", "0", "0">> -> 1000

DocumentedSince(param) == IF param = <<"2">> THEN 2 ELSE 0

\* C16: GetEvents uses limit 100 when the parameter is absent or unparsable,
\* 1 for a limit below 1 and 1000 for a limit above 1000; it returns at most
\* limit events, and has_more is true exactly when more stored events match
\* (sequence > since_sequence, of the prompt if one is given) than were
\* returned. With 5 events: since 0, limit 2 gives 2 events and has_more;
\* since 2, limit 10 gives 3 events and no has_more.
C16_GetEventsPaging ==
    [][(Returns("GetEvents") /\ resp'.code = 200) =>
                LET id == resp'.id
                    p == resp'.promptID
                    sinceParam == resp'.query[1]
                    limitParam == resp'.query[2]
                    matching == {e \in events : /\ e.session_id = id
                                                /\ p # "" => e.prompt_id = p
                                                /\ e.sequence > DocumentedSince(sinceParam)}
                IN /\ resp'.limit = DocumentedLimit(limitParam)
                   /\ Len(resp'.rows) <= resp'.limit
                   /\ \A i \in 1..Len(resp'.rows) : resp'.rows[i] \in matching
                   /\ resp'.hasMore <=> Cardinality(matching) > Len(resp'.rows)
                   /\ (p # "" /\ Cardinality(PromptEvents(events, id, p)) = 5)
                        => /\ (sinceParam = <<>> /\ limitParam = <<"2">>)
                                => Len(resp'.rows) = 2 /\ resp'.hasMore
                           /\ (sinceParam = <<"2">> /\ limitParam = <<"1", "0">>)
                                => Len(resp'.rows) = 3 /\ ~resp'.hasMore]_vars

C16_Witness ==
    /\ resp.op = "GetEvents" /\ resp.code = 200 /\ resp.promptID # ""
    /\ resp.since = 2 /\ resp.limit = 10
    /\ Len(resp.rows) = 3 /\ ~resp.hasMore
    /\ resp.rows[1].sequence = 3 /\ resp.lastSeq = 5
    /\ Cardinality(PromptEvents(events, resp.id, resp.promptID)) = 5

\* the session ids handed out so far whose row is gone
DeletedIds == {SessionId(i) : i \in 1..nextSession} \ DOMAIN sessions

\* C20: a successful DeleteSession(id) leaves no row, message or event of
\* that session; afterwards GetSessionMessages and GetEventsSince for the id
\* return nothing and no error, GetSession fails, and another DeleteSession
\* returns false and no error.
C20_DeleteLeavesNothing ==
    /\ [][(Returns("DeleteSession") /\ resp'.found) =>
            /\ resp'.id \notin DOMAIN sessions'
            /\ \A i \in 1..Len(messages') : messages'[i].session_id # resp'.id
            /\ \A e \in events' : e.session_id # resp'.id]_vars
    /\ [](\A id \in DeletedIds :
            /\ \A i \in 1..Len(messages) : messages[i].session_id # id
            /\ \A e \in events : e.session_id # id)
    /\ [][(resp.op = "" /\ resp'.op # "" /\ resp'.id \in DeletedIds) =>
            /\ resp'.op \in {"GetSessionMessages", "GetEventsSince"}
                  => resp'.rows = <<>> /\ resp'.err = ""
            /\ resp'.op = "GetSession" => ~resp'.found /\ resp'.err # ""
            /\ resp'.op = "DeleteSession" => ~resp'.found /\ resp'.err = ""]_vars

C20_Witness ==
    /\ resp.op = "DeleteSession" /\ ~resp.found /\ resp.err = ""
    /\ resp.id \in DeletedIds
    /\ \E other \in DOMAIN sessions :
          /\ PromptEvents(events, other, FormatPromptID(other, 1)) # {}
          /\ GetSessionMessages(messages, other) # <<>>


\* the line carries the key with the value
HasField(line, key, value) ==
    \E i \in 1..(Len(line) - 1) : i % 2 = 1 /\ line[i] = key /\ line[i + 1] = value

HasKey(line, key) == \E i \in 1..Len(line) : i % 2 = 1 /\ line[i] = key

\* the answer to the Approve request served in this step
Answer == approvals'[Len(approvals')]

\* C17: an allow that is written carries updatedInput: the tool input stored
\* for the request id if there is one, an empty object otherwise; and the
\* entry is gone from the pending table afterwards, so that a later allow for
\* the same id carries an empty object unless a new entry is stored.
C17_AllowEchoesStoredInput ==
    [][approvals' # approvals =>
        \A id \in SessionIds, body \in ApproveBodies :
            (Approve(id, body) /\ body.decision = "allow" /\ Answer.code = 200) =>
                LET rid == body.tool_use_id
                    input == IF rid \in DOMAIN pendingRequests
                                /\ pendingRequests[rid].ToolInput # Nil
                             THEN pendingRequests[rid].ToolInput ELSE EmptyMap
                IN /\ HasField(Answer.line, "response.response.updatedInput", input)
                   /\ rid \notin DOMAIN pendingRequests']_vars

\* C18: a deny that is written is the nested envelope of allow: type
\* control_response, subtype success, the request id, and an inner response
\* with behavior deny and the message "User denied permission", without
\* updatedInput.
C18_DenyUsesNestedEnvelope ==
    [][approvals' # approvals =>
        \A id \in SessionIds, body \in ApproveBodies :
            (Approve(id, body) /\ body.decision = "deny" /\ Answer.code = 200) =>
                /\ HasField(Answer.line, "type", "control_response")
                /\ HasField(Answer.line, "response.subtype", "success")
                /\ HasField(Answer.line, "response.request_id", body.tool_use_id)
                /\ HasField(Answer.line, "response.response.behavior", "deny")
                /\ HasField(Answer.line, "response.response.message", "User denied permission")
                /\ ~HasKey(Answer.line, "response.response.updatedInput")]_vars

\* C19: an Approve with a well-formed body for a session without a registered
\* subprocess is answered 500 with the error of SendPermissionResponse,
\* writes to no subprocess and leaves the pending table as it was.
C19_NoProcessNoEffect ==
    [][approvals' # approvals =>
        \A id \in SessionIds, body \in ApproveBodies :
            (Approve(id, body) /\ ~BadApproveBody(body) /\ id \notin DOMAIN processes) =>
                /\ Answer.code = 500 /\ Answer.err = ErrNoProcess
                /\ Answer.line = <<>> /\ Answer.taken = <<>>
                /\ UNCHANGED <<procs, pendingRequests, processes>>]_vars

C19_Witness ==
    /\ Len(approvals) = 2
    /\ approvals[1].code = 500 /\ approvals[1].err = ErrNoProcess
    /\ approvals[2].code = 200
    /\ approvals[2].taken # <<>>
    /\ HasField(approvals[2].line, "response.response.updatedInput", "in1")
    /\ pendingRequests = <<>>


\* a purge returns in this step
Purged == resp'.op = "Purge" /\ resp' # resp

\* the session of the event is idle or completed when the purge runs
Released(e) ==
    /\ e.session_id \in DOMAIN sessions
    /\ sessions[e.session_id].stream_status \in {StreamStatusIdle, StreamStatusCompleted}

\* C21 as stated: the purge deletes exactly the events stamped before the
\* cutoff instant whose session is idle or completed, and no event of a
\* streaming session.
C21_PurgeExactlyBeforeCutoff ==
    [][Purged =>
        /\ events \ events' = {e \in events : Released(e)
                                              /\ e.created_at * TicksPerSecond < resp'.cutoff}
        /\ events' \subseteq events]_vars

\* C21: the purge deletes exactly the events of idle or completed sessions
\* whose creation second is earlier than the second of the cutoff, keeps
\* every event of a streaming session whatever its age, adds none, and
\* reports the number of deleted events; this also holds between a claim and a
\* release made by other callers.
C21_PurgeBySecond ==
    [][Purged =>
        /\ events \ events' = {e \in events : Released(e)
                                              /\ e.created_at < resp'.cutoff \div TicksPerSecond}
        /\ events' \subseteq events
        /\ resp'.affected = Cardinality(events \ events')
        /\ \A e \in events : ~Released(e) => e \in events'
        /\ UNCHANGED sessions]_vars

C21_Witness ==
    /\ resp.op = "Purge" /\ resp.affected = 2
    /\ Unix(resp.cutoff) = 1 /\ Unix(now) = 1
    /\ \E e \in events :
          /\ sessions[e.session_id].stream_status = StreamStatusCompleted
          /\ e.sequence = 3 /\ e.created_at = 1


\* the sequence numbers stored for one (session, prompt)
StoredSequences(k) == {e.sequence : e \in PromptEvents(events, k[1], k[2])}

MinOf(S) == CHOOSE m \in S : \A n \in S : m <= n

\* C27 as stated: the sequence numbers stored for each (session, prompt) are
\* pairwise distinct and are 1..n for some n.
C27_SequencesFromOne ==
    \A k \in PromptKeys :
        /\ Cardinality(PromptEvents(events, k[1], k[2])) = Cardinality(StoredSequences(k))
        /\ StoredSequences(k) = 1..Cardinality(StoredSequences(k))

\* C27: the sequence numbers stored for each (session, prompt) are pairwise
\* distinct and form a contiguous range; the range starts at 1 until a purge
\* removes the oldest events of the prompt, and only a purge can change that.
C27_SequencesContiguous ==
    /\ [](\A k \in PromptKeys :
            /\ Cardinality(PromptEvents(events, k[1], k[2])) = Cardinality(StoredSequences(k))
            /\ StoredSequences(k) # {}
                  => StoredSequences(k) = MinOf(StoredSequences(k))..MaxOf(StoredSequences(k)))
    /\ [][\A k \in PromptKeys :
            (1 \in StoredSequences(k) \/ StoredSequences(k) = {})
                => \/ 1 \in StoredSequences(k)' \/ StoredSequences(k)' = {}
                   \/ Purged /\ resp'.affected > 0]_vars

C27_Witness ==
    \E k \in PromptKeys :
        /\ StoredSequences(k) = {3, 4}
        /\ resp.op = "Purge" /\ resp.affected = 2


StreamStatuses == {StreamStatusIdle, StreamStatusStreaming, StreamStatusCompleted}

\* C22: UpdateSessionStreamStatus can be called in every state of an existing
\* session; the status afterwards is the value of the call, so after calls in
\* a row it is the value of the last one and a repeated call changes nothing;
\* prompt_sequence, the other columns and the other sessions are untouched.
C22_StatusUpdateIdempotent ==
    /\ [](\A id \in DOMAIN sessions, a \in StreamStatuses :
            LET once == UpdateSessionStreamStatus(sessions, id, a)
            IN /\ once[id].stream_status = a
               /\ once[id].prompt_sequence = sessions[id].prompt_sequence
               /\ UpdateSessionStreamStatus(once, id, a) = once
               /\ \A b \in StreamStatuses :
                     UpdateSessionStreamStatus(once, id, b)
                        = UpdateSessionStreamStatus(sessions, id, b)
               /\ a # StreamStatusStreaming => ENABLED RepoUpdateSessionStreamStatus(id, a))
    /\ [][\A id \in SessionIds, a \in {StreamStatusIdle, StreamStatusCompleted} :
            RepoUpdateSessionStreamStatus(id, a) =>
                /\ sessions'[id].stream_status = a
                /\ sessions'[id].prompt_sequence = sessions[id].prompt_sequence
                /\ \A other \in DOMAIN sessions \ {id} : sessions'[other] = sessions[other]
                /\ DOMAIN sessions' = DOMAIN sessions]_vars

C22_Witness ==
    \E id \in DOMAIN sessions :
        /\ sessions[id].stream_status = StreamStatusCompleted
        /\ sessions[id].prompt_sequence = 2
        /\ window[id] = <<>>
        /\ Len(granted[id]) = 2


\* a KillProcess call returns in this step
Killed == resp'.op = "KillProcess" /\ resp' # resp

\* C23: KillProcess for a session without a tracked process returns nil;
\* no KillProcess changes the process table; every KillProcess removes from
\* the pending table exactly the entries whose session is the one killed.
C23_KillSweepsOwnEntries ==
    [][Killed =>
        /\ processes' = processes
        /\ resp'.id \notin DOMAIN processes => resp'.err = "" /\ procs' = procs
        /\ DOMAIN pendingRequests' =
              {rid \in DOMAIN pendingRequests : pendingRequests[rid].SessionID # resp'.id}
        /\ \A rid \in DOMAIN pendingRequests' : pendingRequests'[rid] = pendingRequests[rid]]_vars

C23_Witness ==
    /\ resp.op = "KillProcess" /\ ~resp.found /\ resp.err = ""
    /\ stored["req-1"] = <<>>
    /\ takeLog["req-1"] = <<>>
    /\ DOMAIN pendingRequests = {"req-2"}
    /\ pendingRequests["req-2"].SessionID # resp.id
    /\ Len(procs) = 1


\* flag value if the flag was set, else the environment if non-empty, else the default
Precedence(wasSet, flagValue, envSet, envValue, default) ==
    IF wasSet THEN flagValue ELSE IF envSet THEN envValue ELSE default

\* the six options resolved one by one from a command line and an environment
Resolved(in) ==
    [Port |-> Precedence("port" \in in.wasSet, in.f.port, in.env.CHAI_PORT # <<>>,
                         Atoi(in.env.CHAI_PORT).value, defaultPort),
     DBPath |-> Precedence("db" \in in.wasSet, in.f.dbPath, in.env.CHAI_DB # "",
                           in.env.CHAI_DB, defaultDBPath),
     WorkDir |-> Precedence("workdir" \in in.wasSet, in.f.workDir, in.env.CHAI_WORKDIR # "",
                            in.env.CHAI_WORKDIR, defaultWorkDir),
     ClaudeCmd |-> Precedence("claude-cmd" \in in.wasSet, in.f.claudeCmd,
                              in.env.CHAI_CLAUDE_CMD # "", in.env.CHAI_CLAUDE_CMD,
                              defaultClaudeCmd),
     PromptTimeout |-> Precedence("prompt-timeout" \in in.wasSet, in.f.promptTimeout,
                                  in.env.CHAI_PROMPT_TIMEOUT # <<>>,
                                  ParseDuration(in.env.CHAI_PROMPT_TIMEOUT).value,
                                  defaultPromptTimeout),
     ShutdownTimeout |-> Precedence("shutdown-timeout" \in in.wasSet, in.f.shutdownTimeout,
                                    in.env.CHAI_SHUTDOWN_TIMEOUT # <<>>,
                                    ParseDuration(in.env.CHAI_SHUTDOWN_TIMEOUT).value,
                                    defaultShutdownTimeout)]

\* the environment values that are read parse, and the resolved port and
\* timeouts are in range
Acceptable(in) ==
    /\ "port" \notin in.wasSet /\ in.env.CHAI_PORT # <<>> => Atoi(in.env.CHAI_PORT).ok
    /\ Resolved(in).Port \in 1..65535
    /\ "prompt-timeout" \notin in.wasSet /\ in.env.CHAI_PROMPT_TIMEOUT # <<>>
          => ParseDuration(in.env.CHAI_PROMPT_TIMEOUT).ok
    /\ Resolved(in).PromptTimeout > 0
    /\ "shutdown-timeout" \notin in.wasSet /\ in.env.CHAI_SHUTDOWN_TIMEOUT # <<>>
          => ParseDuration(in.env.CHAI_SHUTDOWN_TIMEOUT).ok
    /\ Resolved(in).ShutdownTimeout > 0

FlagOf(o) ==
    CASE o = "port" -> "port" [] o = "db" -> "dbPath" [] o = "workdir" -> "workDir"
      [] o = "claude-cmd" -> "claudeCmd" [] o = "prompt-timeout" -> "promptTimeout"
      [] o = "shutdown-timeout" -> "shutdownTimeout"

FieldOf(o) ==
    CASE o = "port" -> "Port" [] o = "db" -> "DBPath" [] o = "workdir" -> "WorkDir"
      [] o = "claude-cmd" -> "ClaudeCmd" [] o = "prompt-timeout" -> "PromptTimeout"
      [] o = "shutdown-timeout" -> "ShutdownTimeout"

FlagValues(o) ==
    CASE o = "port" -> PortFlags
      [] o \in {"db", "workdir", "claude-cmd"} -> PathFlags
      [] OTHER -> DurationFlags

\* the same command line with the flag of option o given another way
OtherFlag(in, o) ==
    {[in EXCEPT !.wasSet = @ \ {o}, !.f[FlagOf(o)] = DefaultFlags[FlagOf(o)]]}
    \cup {[in EXCEPT !.wasSet = @ \cup {o}, !.f[FlagOf(o)] = v] : v \in FlagValues(o)}

\* C24 as stated: whatever the command line and the environment, LoadConfig
\* gives each option its flag value if the flag was set, else the non-empty
\* environment variable, else the default.
C24_FlagEnvDefault ==
    resp.op = "LoadConfig" => resp.found /\ resp.config = Resolved(resp.input)

\* C24: LoadConfig returns a configuration exactly when the environment
\* values it reads parse and the resolved port and timeouts are in range;
\* the configuration then has, for each option, the flag value if the flag
\* was set, else the non-empty environment variable, else the default, and
\* giving the flag of one option another way changes no other option.
C24_FlagEnvDefaultWhenValid ==
    resp.op = "LoadConfig" =>
        /\ resp.found <=> Acceptable(resp.input)
        /\ resp.found => resp.config = Resolved(resp.input)
        /\ ~resp.found => resp.config = NilConfig /\ resp.err # ""
        /\ resp.found =>
              \A o \in Options : \A in2 \in OtherFlag(resp.input, o) :
                  LET r2 == LoadConfig(in2.f, in2.env, in2.wasSet)
                  IN r2.ok => \A p \in Options \ {o} :
                                 r2.cfg[FieldOf(p)] = resp.config[FieldOf(p)]

C24_Witness ==
    /\ resp.op = "LoadConfig" /\ resp.found
    /\ resp.input.wasSet = {"port", "shutdown-timeout"}
    /\ resp.input.env.CHAI_PORT = <<"7", "0", "0", "0">>
    /\ resp.input.env.CHAI_DB = "/env"
    /\ resp.input.env.CHAI_WORKDIR = ""
    /\ resp.input.env.CHAI_PROMPT_TIMEOUT = <<"1", "m", "3", "0", "s">>
    /\ resp.input.env.CHAI_SHUTDOWN_TIMEOUT = <<"x">>
    /\ resp.config.Port = 9000
    /\ resp.config.DBPath = "/env"
    /\ resp.config.WorkDir = defaultWorkDir
    /\ resp.config.PromptTimeout = 90 * Second
    /\ resp.config.ShutdownTimeout = Minute


\* request r emits its terminal event in this step: persisted, written, or both
EmitsTerminal(r) == h[r].pc = "final" /\ h'[r].pc = "release"

\* C25: when the done or error event of a prompt is emitted or persisted,
\* the session is already non-streaming.
C25_ReleasedBeforeTerminalFrame ==
    [][\A r \in Requests :
          EmitsTerminal(r) /\ h[r].id \in DOMAIN sessions
              => sessions[h[r].id].stream_status # StreamStatusStreaming]_vars


\* request r2 holds the prompt accepted next after the prompt of request r1
NextPromptAfter(r1, r2) ==
    /\ h[r1].promptID # "" /\ h[r2].promptID # ""
    /\ h[r2].id = h[r1].id
    /\ \E n \in 1..MaxClaims : /\ h[r1].promptID = FormatPromptID(h[r1].id, n)
                               /\ h[r2].promptID = FormatPromptID(h[r1].id, n + 1)

\* C26: after a prompt that completed normally with external session id X in
\* its result event, with no store failure, the subprocess of the next prompt
\* accepted on the session is started with --resume X.
C26_NextPromptResumes ==
    \A r1, r2 \in Requests : \A pid \in 1..Len(procs) :
        /\ CompletedNormally(h[r1]) /\ h[r1].resultSessionID # ""
        /\ faults = 0
        /\ NextPromptAfter(r1, r2)
        /\ procs[pid].owner = r2
        => procs[pid].resume = h[r1].resultSessionID


\* the events stored for the prompt of request r
LogOf(r) == PromptEvents(events, h[r].id, h[r].promptID)

\* neither a CreateEvent nor a write to the client of request r has failed
NothingFailed(r) == ~h[r].storeFailed /\ ~h[r].clientGone

\* C28: for an accepted prompt with no failed persistence and no failed
\* write, whose session still exists, the stored events are as many as the
\* frames written, and the k-th frame is the event with sequence k, with the
\* same event type and data.
C28_LogEqualsFrames ==
    \A r \in Requests :
        h[r].promptID # "" /\ NothingFailed(r) /\ h[r].id \in DOMAIN sessions =>
            /\ Cardinality(LogOf(r)) = Len(h[r].frames)
            /\ \A k \in 1..Len(h[r].frames) :
                  \E e \in LogOf(r) : /\ e.sequence = k
                                      /\ e.event_type = h[r].frames[k].event
                                      /\ e.data = h[r].frames[k].data

C28_Witness ==
    \E r \in Requests :
        /\ h[r].pc = "done" /\ NothingFailed(r) /\ h[r].id \in DOMAIN sessions
        /\ Len(h[r].frames) = 3 /\ h[r].frames[2].event = "claude"
        /\ h[r].frames[3].event = "done"
        /\ {e.sequence : e \in LogOf(r)} = {1, 2, 3}


\* the client of request r has received the error frame of a stdout line
\* that is not valid JSON
GotInvalidLineFrame(r) ==
    \E k \in 1..Len(h[r].frames) :
        /\ h[r].frames[k].event = OnEventType(InvalidLine)
        /\ h[r].frames[k].data = OnEventData(InvalidLine)

\* C29: a prompt whose subprocess printed a stdout line that is not valid
\* JSON, reported to the client as an error frame, ends with the session
\* released to idle.
C29_InvalidLineEndsIdle ==
    \A r \in Requests :
        h[r].pc = "done" /\ GotInvalidLineFrame(r) => h[r].released = StreamStatusIdle


\* request r saves the assistant message in this step
SavesAssistant(r) ==
    /\ h[r].pc = "afterRun" /\ h'[r].pc = "final"
    /\ Len(messages') = Len(messages) + 1

\* C30: an assistant message is saved only for a prompt whose run ended
\* without an error and with accumulated text.
C30_AssistantMessageOnlyOnSuccess ==
    [][\A r \in Requests :
          SavesAssistant(r) => h[r].runErr = "" /\ h[r].content # <<>>]_vars


\* C31: the last_sequence of a GetEvents response is never lower than the
\* since_sequence of its request, also when the page is empty, so a caller
\* that passes it on as the next since_sequence never goes back in the log.
C31_LastSequenceNotBelowSince ==
    resp.op = "GetEvents" /\ resp.code = 200 => resp.lastSeq >= resp.since


\* the rows a caller collects that pages from sinceSeq with the given limit,
\* passing each last_sequence on, until has_more is false
RECURSIVE PagedRead(_, _, _, _, _)
PagedRead(ev, id, sinceSeq, promptID, limit) ==
    LET p == GetEventsPage(ev, id, sinceSeq, promptID, limit)
    IN IF p.hasMore THEN p.rows \o PagedRead(ev, id, p.lastSeq, promptID, limit)
       ELSE p.rows

\* every event of the session, by prompt and then by sequence
SessionLog(ev, id) == OrderRows({e \in ev : e.session_id = id}, TRUE)

\* C32: with prompt_id omitted, paging from 0 until has_more is false gives
\* every event of the session exactly once, by prompt and then by sequence.
C32_PagingReturnsAll ==
    \A id \in DOMAIN sessions : \A limit \in QueryLimits :
        PagedRead(events, id, 0, "", limit) = SessionLog(events, id)


\* C33: a decision sent on session id consumes a pending entry only if the
\* entry was stored for that session.
C33_ConsumesOwnSessionOnly ==
    [][approvals' # approvals =>
        \A id \in SessionIds, body \in ApproveBodies :
            Approve(id, body) =>
                \A rid \in DOMAIN pendingRequests \ DOMAIN pendingRequests' :
                    pendingRequests[rid].SessionID = id]_vars


\* C34: with every entry stored while the subprocess of its session was
\* tracked, the pending table holds no entry of a session without a tracked
\* subprocess.
C34_NoEntryOutlivesProcess ==
    \A rid \in DOMAIN pendingRequests : pendingRequests[rid].SessionID \in DOMAIN processes


\* C35: once DeleteSession(id) has returned success there is no message and
\* no event of that session, whatever a handler of the session that was
\* streaming at the time goes on to persist.
C35_NothingAfterDelete ==
    \A id \in SessionIds : del[id] = "done" =>
        /\ id \notin DOMAIN sessions
        /\ \A i \in 1..Len(messages) : messages[i].session_id # id
        /\ \A e \in events : e.session_id # id

C35_Witness ==
    \E r \in Requests :
        /\ h[r].id \in SessionIds
        /\ del[h[r].id] = "done"
        /\ h[r].pc = "done" /\ h[r].ran /\ h[r].content # <<>>
        /\ h[r].final = "error" /\ ~h[r].finalPersisted
        /\ h[r].released = StreamStatusIdle
        /\ faults = 0


\* the server has been started again in this step
Restarted == resp = NoCall /\ resp'.op = "Restart"

\* C36: after the server is started again on the existing database, every
\* session accepts a new prompt, also one that was streaming when the
\* previous process stopped.
C36_RestartUnwedges ==
    [][Restarted => \A id \in DOMAIN sessions' : StartNewPromptErr(sessions', id) = ""]_vars


\* RunPrompt of request r hands a stdout line to the callback in this step,
\* and the callback returns an error: its write to the client fails
CallbackFails(r) ==
    /\ h[r].pc = "scan" /\ h'[r].lines = h[r].lines + 1
    /\ WriteFails(h[r])

\* C37: when the callback returns an error for a stdout line, the result
\* line included, the subprocess is killed at once and RunPrompt returns the
\* error of the callback.
C37_CallbackErrorKills ==
    [][\A r \in Requests :
          CallbackFails(r) =>
              /\ h'[r].pc = "afterRun" /\ h'[r].runErr = "callback"
              /\ ~procs'[h[r].pid].alive]_vars


\* RunPrompt of request r reads a stdout line in this step
ScansLine(r) == h[r].pc = "scan" /\ h'[r].lines = h[r].lines + 1

\* the data of a frame is a stdout line tagged result
TaggedResult(data) == Len(data) = 4 /\ data[1] = "type" /\ data[2] = "result"

\* the last frame written to the client of request r
LastFrame(fr) == fr.frames[Len(fr.frames)]

\* C38: a stdout line tagged result is passed to the callback, stdin is
\* closed and the scan ends; no line is read once the scan has ended; the id
\* RunPrompt returns is the session_id of the result line, and empty as long
\* as no result line was read.
C38_ResultLineEndsScan ==
    /\ [][\A r \in Requests :
            ScansLine(r) =>
                IF h'[r].resultSessionID # h[r].resultSessionID
                THEN /\ h'[r].pc = "wait"
                     /\ ~procs'[h[r].pid].stdinOpen
                     /\ h'[r].resultSessionID = ClaudeSessionIdOf(h[r].pid)
                     /\ ~WriteFails(h[r]) =>
                           /\ Len(h'[r].frames) = Len(h[r].frames) + 1
                           /\ LastFrame(h'[r]).event = "claude"
                           /\ TaggedResult(LastFrame(h'[r]).data)
                           /\ LastFrame(h'[r]).data[4] = h'[r].resultSessionID
                ELSE /\ h[r].resultSessionID = ""
                     /\ ~(~WriteFails(h[r]) /\ Len(h'[r].frames) > Len(h[r].frames)
                          /\ TaggedResult(LastFrame(h'[r]).data))]_vars
    /\ [][\A r \in Requests :
            h[r].resultSessionID # "" =>
                /\ h'[r].resultSessionID = h[r].resultSessionID
                /\ h'[r].lines = h[r].lines]_vars
    /\ [](\A r \in Requests :
            h[r].resultSessionID # "" => h[r].pc \notin {"scan", "start", "write"})

C38_Witness ==
    \E r \in Requests :
        /\ h[r].pc = "done" /\ h[r].runErr = ""
        /\ h[r].resultSessionID = ClaudeSessionIdOf(h[r].pid)
        /\ Len(h[r].frames) = 3 /\ TaggedResult(h[r].frames[2].data)
        /\ ~procs[h[r].pid].stdinOpen
        /\ h[r].id \in DOMAIN sessions
        /\ sessions[h[r].id].claude_session_id = h[r].resultSessionID


\* the messages of a session with the given role
RoleMessages(id, role) ==
    SelectSeq(messages, LAMBDA m : m.session_id = id /\ m.role = role)

\* the requests that have claimed a prompt on the session and not yet saved
\* its user message
Unsaved(id) == {r \in Requests : h[r].id = id /\ h[r].pc = "saveUser"}

\* request r is answered 400, 404 or 409 in this step
Rejected(r) == h[r].code = 0 /\ h'[r].code \in {400, 404, 409}

\* C39: with no store failure, a session has one user message for each
\* prompt accepted on it, the prompt whose handler has not yet saved its
\* message aside, and at most as many assistant messages as accepted prompts;
\* a prompt that is rejected with 400, 404 or 409 saves no message.
C39_MessagesPerPrompt ==
    /\ [](faults = 0 =>
            \A id \in DOMAIN sessions :
                /\ Len(RoleMessages(id, "user")) + Cardinality(Unsaved(id))
                      = sessions[id].prompt_sequence
                /\ Len(RoleMessages(id, "assistant")) <= Len(RoleMessages(id, "user")))
    /\ [][\A r \in Requests : Rejected(r) => messages' = messages]_vars
    /\ [][\A r \in Requests :
            h[r].promptID # "" /\ h'[r].promptID = h[r].promptID =>
                Len(messages') <= Len(messages) + 1]_vars

C39_Witness ==
    \E id \in DOMAIN sessions : \E r \in Requests :
        /\ faults = 0
        /\ sessions[id].prompt_sequence = 1
        /\ Len(RoleMessages(id, "user")) = 1
        /\ Len(RoleMessages(id, "assistant")) = 1
        /\ h[r].pc = "done" /\ h[r].code = 409
        /\ \A q \in Requests : h[q].pc \in {"idle", "done"}


\* the client of request r after the frames written to it so far
ClientOf(r) == HandleFrames(ClientStart, h[r].frames)

\* the data of the claude events of a prompt log, in sequence order
ClaudeData(log) ==
    LET rows == SelectSeq(OrderRows(log, FALSE), LAMBDA e : e.event_type = "claude")
    IN [k \in 1..Len(rows) |-> rows[k].data]

\* C40: after the client has handled the live frames of a prompt whose
\* events were all stored, its lastSequence is the log sequence of the last
\* claude event it applied, and a catch-up from there leaves every claude
\* event of the prompt applied exactly once, in order.
C40_WatermarkTracksLog ==
    \A r \in Requests :
        /\ h[r].promptID # "" /\ ~h[r].storeFailed /\ h[r].id \in DOMAIN sessions
        /\ ClientOf(r).currentPromptId # "" /\ ClientOf(r).isStreaming
        => /\ ClientOf(r).applied # <<>> =>
                 \E e \in LogOf(r) : /\ e.sequence = ClientOf(r).lastSequence
                                     /\ e.event_type = "claude"
                                     /\ e.data = ClientOf(r).applied[Len(ClientOf(r).applied)]
           /\ handleAppBecameActive(ClientOf(r), events, sessions, h[r].id).applied
                 = ClaudeData(LogOf(r))

============================================================================
